---- MODULE Spec2Model ----
(***************************************************************************)
(* Model of the diffusion attention data generator:                        *)
(*   hooks/attention_recorder.py  (AttentionRecorder, layer selection)     *)
(*   compression/serializer.py    (DatasetSerializer)                      *)
(*   generate.py                  (driver loop, export, inline validation) *)
(*   validate_dataset.py          (standalone validator)                   *)
(*                                                                         *)
(* Tensors are represented by their shape (a sequence of naturals); the    *)
(* numeric content of attention probabilities is not represented.  Strings *)
(* that the code formats are represented by the tuple of their parts.      *)
(***************************************************************************)
EXTENDS Integers, Sequences, FiniteSets, TLC

VARIABLES
    \* ---- create_recording_processors (layer selection) ----
    sel_args,          \* arguments of the call
    sel_out,           \* outcome of the call (none / returned / raised)
    \* ---- AttentionRecorder ----
    recorder,          \* the recorder object's fields
    call_log,          \* the record calls made since the last set_step
    drained,           \* <<value>> returned by the last drain_step, or <<>>
    \* ---- DatasetSerializer and the file system ----
    attention_files,   \* serializer.attention_files (the manifest)
    image_paths,       \* serializer.image_paths
    bin_files,         \* attention/*.bin files on disk: path -> size in bytes
    json_files,        \* JSON targets and their .tmp siblings: path -> file
    wj,                \* the write_json call in progress and its position
    \* ---- generate.main ----
    pc,                \* position of the driver
    run,               \* run configuration (timesteps, selected layers, flags)
    step_index,        \* loop variable of the sampling loop
    hist,              \* per-step histories kept in memory
    shape_errors,      \* the driver's run-wide shape error list
    pending,           \* maps of the drained step not yet saved
    exports,           \* the documents built in memory at export
    progress,          \* records written to the progress file, in order
    \* ---- validate_dataset.validate ----
    val,               \* outcome of a validator
    \* ---- metrics.analytics.token_importance_ranking ----
    rank_args,         \* arguments of the call
    rank_out,          \* <<ranking>> returned by the call, or <<>>
    \* ---- metrics.analytics.compute_latent_pca ----
    pca_args,          \* the list of latents given to the calls
    pca_out,           \* the results of the calls made, in order
    \* ---- local_service ----
    requests,          \* the create_job requests and their positions
    jobs,              \* _jobs: the job registry, in insertion order
    processes          \* generator processes and their monitor threads

vars == <<sel_args, sel_out, recorder, call_log, drained,
          attention_files, image_paths, bin_files, json_files, wj,
          pc, run, step_index, hist, shape_errors, pending, exports, progress, val,
          rank_args, rank_out, pca_args, pca_out,
          requests, jobs, processes>>

(***************************************************************************)
(* Bounds of the model.                                                    *)
(***************************************************************************)
MaxItems == 3      \* longest unet.attn_processors list given to the selector
MaxSteps == 2      \* largest number of scheduler timesteps in a run
MaxCalls == 2      \* most record calls between set_step and drain_step
MaxWrites == 3     \* most write_json calls in the serializer specification

(***************************************************************************)
(* Generic helpers.                                                        *)
(***************************************************************************)
Range(s) == {s[i] : i \in 1..Len(s)}

Min(a, b) == IF a < b THEN a ELSE b

RECURSIVE Product(_)
Product(shape) ==
    IF shape = <<>> THEN 1 ELSE Head(shape) * Product(Tail(shape))

RECURSIVE Digits(_)
\* decimal digits of a natural number, most significant first
Digits(n) == IF n < 10 THEN <<n>> ELSE Digits(n \div 10) \o <<n % 10>>

\* Python's format spec ":03d" for a non-negative integer
Format03d(n) ==
    LET d == Digits(n)
    IN  IF Len(d) >= 3 THEN d
        ELSE [i \in 1..(3 - Len(d)) |-> 0] \o d

\* sequences without repetition over a set, up to a length
DistinctSeqs(S, n) ==
    UNION {{s \in [1..k -> S] : \A i, j \in 1..k : i # j => s[i] # s[j]} : k \in 0..n}

(***************************************************************************)
(* Layer selection: hooks/attention_recorder.py                            *)
(***************************************************************************)
\* Processor keys are character sequences (module paths of the UNet).
KeyDownSelf  == <<"d", ".", "a", "t", "t", "n", "1", ".", "p">>
KeyDownCross == <<"d", ".", "a", "t", "t", "n", "2", ".", "p">>
KeyMidSelf   == <<"m", ".", "a", "t", "t", "n", "1", ".", "p">>
KeyMidCross  == <<"m", ".", "a", "t", "t", "n", "2", ".", "p">>
KeyOther     == <<"u", ".", "a", "t", "t", "n", ".", "p">>
LayerKeys == {KeyDownSelf, KeyDownCross, KeyMidSelf, KeyMidCross, KeyOther}

\* Glob patterns given with --layers ("*" and "?" wildcards, literals).
PatSelf    == <<"*", "a", "t", "t", "n", "1", "*">>
PatCross   == <<"*", "a", "t", "t", "n", "2", "*">>
PatDown    == <<"d", "*">>
PatMidAny  == <<"m", ".", "a", "t", "t", "n", "?", ".", "p">>
PatNothing == <<"x", "*">>
PatternLists ==
    { <<>>, <<PatSelf, PatCross>>, <<PatCross>>, <<PatDown>>,
      <<PatMidAny>>, <<PatNothing>>, <<PatNothing, PatDown>> }

NeedleCross == <<".", "a", "t", "t", "n", "2", ".">>
NeedleSelf  == <<".", "a", "t", "t", "n", "1", ".">>

\* Python's `needle in key` for strings
Contains(key, needle) ==
    \E i \in 1..(Len(key) - Len(needle) + 1) :
        SubSeq(key, i, i + Len(needle) - 1) = needle

RECURSIVE fnmatch(_, _)
\* fnmatch.fnmatch for patterns made of literals, "*" and "?"
fnmatch(value, pattern) ==
    IF pattern = <<>> THEN value = <<>>
    ELSE IF Head(pattern) = "*"
         THEN fnmatch(value, Tail(pattern))
              \/ (value # <<>> /\ fnmatch(Tail(value), pattern))
    ELSE IF Head(pattern) = "?"
         THEN value # <<>> /\ fnmatch(Tail(value), Tail(pattern))
    ELSE value # <<>> /\ Head(value) = Head(pattern)
         /\ fnmatch(Tail(value), Tail(pattern))

matches_any_pattern_empty_rejects(value, patterns) ==
    \E i \in 1..Len(patterns) : fnmatch(value, patterns[i])

matches_any_pattern(value, patterns) ==
    IF patterns = <<>> THEN TRUE
    ELSE \E i \in 1..Len(patterns) : fnmatch(value, patterns[i])

\* f"layer_{n}"
LayerId(n) == <<"layer_", n>>
NoLayer == <<>>

LayerInfo(id, key, type) ==
    [layer_id |-> id, processor_key |-> key, attention_type |-> type]

RecordingAttnProcessor(id, type) ==
    [kind |-> "recording", layer_id |-> id, attention_type |-> type, key |-> <<>>]

\* the processor object that unet.attn_processors held for `key`
OriginalProcessor(key) ==
    [kind |-> "original", layer_id |-> NoLayer, attention_type |-> "", key |-> key]

EmptySelection == [processor_map |-> <<>>, selected_layers |-> <<>>]

\* line 270: the kind of the layer is enabled by the include flags
keep_kind(key, a) ==
    (Contains(key, NeedleCross) /\ a.include_cross_attention)
    \/ (Contains(key, NeedleSelf) /\ a.include_self_attention)

\* the limit test dropped from the selection condition
should_record_no_limit(st, key, a) ==
    keep_kind(key, a) /\ matches_any_pattern(key, a.layer_patterns)

\* line 273: the condition under which a layer is recorded
should_record(st, key, a) ==
    /\ keep_kind(key, a)
    /\ matches_any_pattern(key, a.layer_patterns)
    /\ (a.max_layers <= 0 \/ Len(st.selected_layers) < a.max_layers)

\* id taken from the position in the whole list instead of the selected count
new_layer_id_by_position(st) == LayerId(Cardinality(DOMAIN st.processor_map))

\* line 274: layer_id = f"layer_{len(selected_layers)}"
new_layer_id(st) == LayerId(Len(st.selected_layers))

\* line 275
attention_type_of(key) == IF Contains(key, NeedleCross) THEN "cross" ELSE "self"

\* non-selected keys left out of the returned map
keep_original_dropped(st, key) == st

\* line 281: processor_map[key] = original
keep_original(st, key) ==
    [processor_map |-> (key :> OriginalProcessor(key)) @@ st.processor_map,
     selected_layers |-> st.selected_layers]

\* lines 274-279: install a recording processor and append the LayerInfo
install_recording(st, key) ==
    LET layer_id == new_layer_id(st)
        attention_type == attention_type_of(key)
    IN  [processor_map |->
             (key :> RecordingAttnProcessor(layer_id, attention_type))
             @@ st.processor_map,
         selected_layers |->
             Append(st.selected_layers, LayerInfo(layer_id, key, attention_type))]

\* one iteration of the loop over ordered_items (lines 266-281)
select_iteration(st, key, a) ==
    IF should_record(st, key, a)
    THEN install_recording(st, key)
    ELSE keep_original(st, key)

RECURSIVE select_loop(_, _, _)
\* the whole loop: iterations applied left to right
select_loop(st, items, a) ==
    IF items = <<>> THEN st
    ELSE select_loop(select_iteration(st, Head(items), a), Tail(items), a)

\* the empty-selection check skipped
create_recording_processors_no_raise(a) ==
    LET st == select_loop(EmptySelection, a.ordered_items, a)
    IN  [status |-> "returned", error |-> "",
         processor_map |-> st.processor_map,
         selected_layers |-> st.selected_layers]

\* create_recording_processors: the loop, then the empty-selection check
create_recording_processors(a) ==
    LET st == select_loop(EmptySelection, a.ordered_items, a)
    IN  IF st.selected_layers = <<>>
        THEN [status |-> "raised", error |-> "RuntimeError",
              processor_map |-> <<>>, selected_layers |-> <<>>]
        ELSE [status |-> "returned", error |-> "",
              processor_map |-> st.processor_map,
              selected_layers |-> st.selected_layers]

NoSelOut ==
    [status |-> "none", error |-> "", processor_map |-> <<>>, selected_layers |-> <<>>]

SelArgs ==
    [ordered_items : DistinctSeqs(LayerKeys, MaxItems),
     include_self_attention : BOOLEAN,
     include_cross_attention : BOOLEAN,
     layer_patterns : PatternLists,
     max_layers : (-1)..MaxItems]

(***************************************************************************)
(* Python dicts keep insertion order: a dict is a sequence of <<key,       *)
(* value>> pairs with distinct keys.                                       *)
(***************************************************************************)
DictKeys(d) == [i \in 1..Len(d) |-> d[i][1]]

DictHas(d, k) == \E i \in 1..Len(d) : d[i][1] = k

DictGet(d, k) == d[CHOOSE i \in 1..Len(d) : d[i][1] = k][2]

\* d[k] = v
DictSet(d, k, v) ==
    IF DictHas(d, k)
    THEN [i \in 1..Len(d) |-> IF d[i][1] = k THEN <<k, v>> ELSE d[i]]
    ELSE Append(d, <<k, v>>)

(***************************************************************************)
(* AttentionRecorder: hooks/attention_recorder.py                          *)
(***************************************************************************)
\* A shape error message: the parts that the f-string puts into the text.
\* layer = NoLayer when the message does not contain a layer id.
ShapeError(kind, step, layer, type, nums) ==
    [kind |-> kind, step |-> step, layer |-> layer, type |-> type, nums |-> nums]

\* None for an optional array
None == [none |-> TRUE, vec |-> <<>>]
Some(v) == [none |-> FALSE, vec |-> v]

\* AttentionRecorder.__init__ (arguments already validated, lines 28-31)
NewRecorder(token_count, attention_resolution, self_attention_resolution, cfg_enabled) ==
    [token_count |-> token_count,
     attention_resolution |-> attention_resolution,
     self_attention_resolution |-> self_attention_resolution,
     cfg_enabled |-> cfg_enabled,
     current_step |-> -1,
     current_timestep |-> -1,
     cross_maps |-> <<>>,
     self_maps |-> <<>>,
     cross_entropy |-> <<>>,
     self_entropy |-> <<>>,
     token_activation_by_layer |-> <<>>,
     shape_errors |-> <<>>]

\* set_step that forgets to clear the token activation table
set_step_keeps_activation(r, step, timestep) ==
    [r EXCEPT !.current_step = step, !.current_timestep = timestep,
              !.cross_maps = <<>>, !.self_maps = <<>>,
              !.cross_entropy = <<>>, !.self_entropy = <<>>]

\* AttentionRecorder.set_step
set_step(r, step, timestep) ==
    [r EXCEPT !.current_step = step, !.current_timestep = timestep,
              !.cross_maps = <<>>, !.self_maps = <<>>,
              !.cross_entropy = <<>>, !.self_entropy = <<>>,
              !.token_activation_by_layer = <<>>]

\* the head-count test dropped: the modulo and the reshape then raise
extract_check_no_heads_test(step, shape, heads) ==
    IF Len(shape) # 3
    THEN [raised |-> "", error |-> <<ShapeError("invalid attention rank", step, NoLayer, "", <<Len(shape)>>)>>]
    ELSE IF heads = 0
    THEN [raised |-> "ZeroDivisionError", error |-> <<>>]
    ELSE IF heads < 0
    THEN [raised |-> "RuntimeError", error |-> <<>>]
    ELSE IF shape[1] % heads # 0
    THEN [raised |-> "", error |-> <<ShapeError("cannot reshape attention", step, NoLayer, "", shape \o <<heads>>)>>]
    ELSE [raised |-> "", error |-> <<>>]

\* _extract_conditional_attention, lines 59-76: the three validity tests.
\* error is <<>> when the tensor passes, else the one message appended.
extract_check(step, shape, heads) ==
    IF Len(shape) # 3
    THEN [raised |-> "", error |-> <<ShapeError("invalid attention rank", step, NoLayer, "", <<Len(shape)>>)>>]
    ELSE IF heads <= 0
    THEN [raised |-> "", error |-> <<ShapeError("invalid head count", step, NoLayer, "", <<heads>>)>>]
    ELSE IF shape[1] % heads # 0
    THEN [raised |-> "", error |-> <<ShapeError("cannot reshape attention", step, NoLayer, "", shape \o <<heads>>)>>]
    ELSE [raised |-> "", error |-> <<>>]

\* lines 78-81: the [Q, K] matrix of the conditional branch, averaged over heads
conditional_matrix(r, shape, heads) ==
    LET batch == shape[1] \div heads
        cond_index == IF r.cfg_enabled /\ batch > 1 THEN batch - 1 ELSE 0
    IN  [shape |-> <<shape[2], shape[3]>>, cond_index |-> cond_index]

\* int(math.sqrt(n))
isqrt(n) == CHOOSE s \in 0..n : s * s <= n /\ (s + 1) * (s + 1) > n

\* the resampled map stored with its own K rows, not fitted to token_count
cross_map_of_unfitted(r, matrix) ==
    [shape |-> <<matrix.shape[2], r.attention_resolution, r.attention_resolution>>,
     dtype |-> "float16",
     rows |-> [i \in 1..matrix.shape[2] |-> i],
     of_step |-> r.current_step]

\* lines 119-142: the stored cross map.  rows[i] is the index of the row of the
\* resampled [K, res, res] map that row i holds, 0 for an all-zero row.
cross_map_of(r, matrix) ==
    LET K == matrix.shape[2]
        res == r.attention_resolution
    IN  IF K # r.token_count
        THEN LET min_tokens == Min(K, r.token_count)
             IN  [shape |-> <<r.token_count, res, res>>,
                  dtype |-> "float16",
                  rows |-> [i \in 1..r.token_count |-> IF i <= min_tokens THEN i ELSE 0],
                  of_step |-> r.current_step]
        ELSE [shape |-> <<K, res, res>>,
              dtype |-> "float16",
              rows |-> [i \in 1..K |-> i],
              of_step |-> r.current_step]

\* lines 146-150: the stored self map
self_map_of(r, matrix) ==
    [shape |-> <<r.self_attention_resolution, r.self_attention_resolution>>,
     dtype |-> "float16",
     rows |-> <<>>,
     of_step |-> r.current_step]

\* the mean taken over the key axis: one entry per query position
token_activation_of_per_query(r, layer_id, matrix) ==
    [j \in 1..matrix.shape[1] |-> {<<layer_id, r.current_step>>}]

\* line 108: matrix.mean(dim=0), one entry per key position; an entry is the
\* set of (layer, step) captures it was computed from
token_activation_of(r, layer_id, matrix) ==
    [j \in 1..matrix.shape[2] |-> {<<layer_id, r.current_step>>}]

\* _entropy(matrix): a scalar; represented by the capture it was computed from
entropy_of(r, layer_id, matrix) == <<layer_id, r.current_step>>

append_error(r, e) == [r EXCEPT !.shape_errors = Append(@, e)]

\* the cross branch with the square test made before anything is stored
record_cross_square_first(r, layer_id, matrix) ==
    LET query_tokens == matrix.shape[1]
        side == isqrt(query_tokens)
    IN  IF side * side # query_tokens
        THEN append_error(r, ShapeError("is not square", r.current_step, layer_id, "", <<query_tokens>>))
        ELSE [r EXCEPT
                 !.cross_entropy = DictSet(@, layer_id, entropy_of(r, layer_id, matrix)),
                 !.token_activation_by_layer = DictSet(@, layer_id, token_activation_of(r, layer_id, matrix)),
                 !.cross_maps = DictSet(@, layer_id, cross_map_of(r, matrix))]

\* the cross branch without the square test
record_cross_no_square_test(r, layer_id, matrix) ==
    [r EXCEPT
        !.cross_entropy = DictSet(@, layer_id, entropy_of(r, layer_id, matrix)),
        !.token_activation_by_layer = DictSet(@, layer_id, token_activation_of(r, layer_id, matrix)),
        !.cross_maps = DictSet(@, layer_id, cross_map_of(r, matrix))]

\* record, lines 106-143: the cross branch
record_cross(r, layer_id, matrix) ==
    LET r1 == [r EXCEPT
                  !.cross_entropy = DictSet(@, layer_id, entropy_of(r, layer_id, matrix)),
                  !.token_activation_by_layer = DictSet(@, layer_id, token_activation_of(r, layer_id, matrix))]
        query_tokens == matrix.shape[1]
        side == isqrt(query_tokens)
    IN  IF side * side # query_tokens
        THEN append_error(r1, ShapeError("is not square", r.current_step, layer_id, "", <<query_tokens>>))
        ELSE [r1 EXCEPT !.cross_maps = DictSet(@, layer_id, cross_map_of(r, matrix))]

\* record, lines 145-150: the self branch
record_self(r, layer_id, matrix) ==
    [r EXCEPT
        !.self_entropy = DictSet(@, layer_id, entropy_of(r, layer_id, matrix)),
        !.self_maps = DictSet(@, layer_id, self_map_of(r, matrix))]

\* record with the entropy stored before the tensor is validated
record_store_before_check(r, layer_id, attention_type, shape, heads) ==
    LET r0 == IF attention_type = "cross"
              THEN [r EXCEPT !.cross_entropy = DictSet(@, layer_id, <<layer_id, r.current_step>>)]
              ELSE r
        chk == extract_check(r.current_step, shape, heads)
    IN  IF attention_type \notin {"cross", "self"}
        THEN [rec |-> append_error(r0, ShapeError("unsupported attention type", r.current_step, layer_id, attention_type, <<>>)),
              raised |-> ""]
        ELSE IF chk.error # <<>>
        THEN [rec |-> append_error(r0, chk.error[1]), raised |-> ""]
        ELSE LET matrix == conditional_matrix(r, shape, heads)
             IN  IF attention_type = "cross"
                 THEN [rec |-> record_cross(r, layer_id, matrix), raised |-> ""]
                 ELSE [rec |-> record_self(r, layer_id, matrix), raised |-> ""]

\* AttentionRecorder.record: the new recorder and the exception raised, if any
record(r, layer_id, attention_type, shape, heads) ==
    IF attention_type \notin {"cross", "self"}
    THEN [rec |-> append_error(r, ShapeError("unsupported attention type", r.current_step, layer_id, attention_type, <<>>)),
          raised |-> ""]
    ELSE LET chk == extract_check(r.current_step, shape, heads)
         IN  IF chk.raised # ""
             THEN [rec |-> r, raised |-> chk.raised]
             ELSE IF chk.error # <<>>
             THEN [rec |-> append_error(r, chk.error[1]), raised |-> ""]
             ELSE LET matrix == conditional_matrix(r, shape, heads)
                  IN  IF attention_type = "cross"
                      THEN [rec |-> record_cross(r, layer_id, matrix), raised |-> ""]
                      ELSE [rec |-> record_self(r, layer_id, matrix), raised |-> ""]

DictValues(d) == [i \in 1..Len(d) |-> d[i][2]]

\* np.stack(...).mean(axis=0) over vectors of one common length: every entry
\* is the sum of the entries of all the vectors at its position, divided by
\* the number of vectors
mean_of_vectors(vs) ==
    [j \in 1..Len(vs[1]) |->
        [sum_of |-> UNION {vs[i][j] : i \in 1..Len(vs)}, divided_by |-> Len(vs)]]

\* an entry of np.zeros: the empty sum
ZeroEntry == [sum_of |-> {}, divided_by |-> 1]

\* drain_step without shape_errors.clear()
drain_step_keeps_errors(r) ==
    LET acts == DictValues(r.token_activation_by_layer)
    IN  [raised |-> "",
         rec |-> r,
         output |-> << [step |-> r.current_step,
                        timestep |-> r.current_timestep,
                        cross_maps |-> r.cross_maps,
                        self_maps |-> r.self_maps,
                        cross_entropy |-> r.cross_entropy,
                        self_entropy |-> r.self_entropy,
                        mean_token_activation |->
                            IF acts = <<>> THEN None ELSE Some(mean_of_vectors(acts)),
                        shape_errors |-> r.shape_errors] >>]

\* AttentionRecorder.drain_step: the returned dict, the recorder afterwards
\* and the exception raised, if any (np.stack rejects vectors of unequal length)
drain_step(r) ==
    LET acts == DictValues(r.token_activation_by_layer)
        ragged == \E i, j \in 1..Len(acts) : Len(acts[i]) # Len(acts[j])
        mean_token_activation ==
            IF acts = <<>> THEN None ELSE Some(mean_of_vectors(acts))
    IN  IF ragged
        THEN [raised |-> "ValueError", rec |-> r, output |-> <<>>]
        ELSE [raised |-> "",
              rec |-> [r EXCEPT !.shape_errors = <<>>],
              output |-> << [step |-> r.current_step,
                             timestep |-> r.current_timestep,
                             cross_maps |-> r.cross_maps,
                             self_maps |-> r.self_maps,
                             cross_entropy |-> r.cross_entropy,
                             self_entropy |-> r.self_entropy,
                             mean_token_activation |-> mean_token_activation,
                             shape_errors |-> r.shape_errors] >>]

\* a record call as logged: its arguments, the exception it raised and the
\* shape errors it appended
LoggedCall(r, layer_id, inp, out) ==
    [layer_id |-> layer_id,
     attention_type |-> inp.attention_type,
     shape |-> inp.shape,
     heads |-> inp.heads,
     raised |-> out.raised,
     appended |-> SubSeq(out.rec.shape_errors, Len(r.shape_errors) + 1,
                         Len(out.rec.shape_errors))]

\* the scheduler's timestep value of a step
TimestepOf(step) == 900 - 100 * step

(***************************************************************************)
(* DatasetSerializer: compression/serializer.py                            *)
(***************************************************************************)
ItemSizeFloat16 == 2

\* the array written with four bytes per item
tofile_bytes_float32(arr) == Product(arr.shape) * 4

\* array.astype(np.float16).tofile(path): the number of bytes written
tofile_bytes(arr) == Product(arr.shape) * ItemSizeFloat16

\* the file name without the step
attention_path_no_step(step, layer_id, attention_type) ==
    <<"attention", attention_type, layer_id, "_step_", <<>>, ".bin">>

\* lines 37-42, 50: attention/{type}/{layer_id}_step_{step:03d}.bin
attention_path(step, layer_id, attention_type) ==
    <<"attention", attention_type, layer_id, "_step_", Format03d(step), ".bin">>

\* the record appended before the type is tested
save_attention_record_before_check(files, manifest, step, layer_id, attention_type, arr) ==
    LET path == attention_path(step, layer_id, attention_type)
        rec == [step |-> step, layer_id |-> layer_id, attention_type |-> attention_type,
                path |-> path, shape |-> arr.shape, dtype |-> "float16"]
    IN  IF attention_type \notin {"cross", "self"}
        THEN [raised |-> "ValueError", files |-> files, manifest |-> Append(manifest, rec)]
        ELSE [raised |-> "",
              files |-> (path :> tofile_bytes(arr)) @@ files,
              manifest |-> Append(manifest, rec)]

\* save_attention: files on disk and manifest afterwards, or the exception
save_attention(files, manifest, step, layer_id, attention_type, arr) ==
    IF attention_type \notin {"cross", "self"}
    THEN [raised |-> "ValueError", files |-> files, manifest |-> manifest]
    ELSE LET path == attention_path(step, layer_id, attention_type)
             rec == [step |-> step,
                     layer_id |-> layer_id,
                     attention_type |-> attention_type,
                     path |-> path,
                     shape |-> arr.shape,
                     dtype |-> "float16"]
         IN  [raised |-> "",
              files |-> (path :> tofile_bytes(arr)) @@ files,
              manifest |-> Append(manifest, rec)]

\* save_image: images/step_{step:03d}.png appended to image_paths
image_path(step) == <<"images", "step_", Format03d(step), ".png">>

\* ---- JSON documents -----------------------------------------------------
\* A path is a stem and the parts of its suffix.
JsonPath(stem) == [stem |-> stem, suffix |-> <<".json">>]

\* the payload written straight to the target
temp_target_in_place(target) == target

\* line 60: target.with_suffix(f"{target.suffix}.tmp")
temp_target(target) == [stem |-> target.stem, suffix |-> target.suffix \o <<".tmp">>]

\* A file: absent, or holding a prefix of a document, or the whole document.
Absent == [exists |-> FALSE, complete |-> FALSE, doc |-> <<>>]
Partial(payload) == [exists |-> TRUE, complete |-> FALSE, doc |-> <<payload>>]
Complete(payload) == [exists |-> TRUE, complete |-> TRUE, doc |-> <<payload>>]

\* line 61, first half: write_text opens the temporary file for writing
\* (created or truncated); until the text is flushed a reader sees a prefix
write_text_open(files, target, payload) ==
    [files EXCEPT ![temp_target(target)] = Partial(payload)]

\* line 61, second half: the whole text is in the temporary file
write_text_close(files, target, payload) ==
    [files EXCEPT ![temp_target(target)] = Complete(payload)]

\* line 62: temp_target.replace(target), an atomic rename
replace_target(files, target) ==
    IF temp_target(target) = target THEN files
    ELSE [files EXCEPT ![target] = files[temp_target(target)],
                       ![temp_target(target)] = Absent]

\* the write_json call in progress: `at` is the last point reached,
\* prev is the target file as it was when the call began
WjIdle ==
    [at |-> "idle", target |-> JsonPath(""), payload |-> <<>>, prev |-> Absent, count |-> 0]

WjCall(w, files, target, payload) ==
    [at |-> "called", target |-> target, payload |-> <<payload>>,
     prev |-> files[target], count |-> w.count + 1]

\* one step of the write_json call in progress: the files afterwards
write_json_files(files, w) ==
    CASE w.at = "called" -> write_text_open(files, w.target, w.payload[1])
      [] w.at = "opened" -> write_text_close(files, w.target, w.payload[1])
      [] w.at = "written" -> replace_target(files, w.target)
      [] OTHER -> files

\* ... and the position afterwards ("returned": the call has returned)
write_json_at(w) ==
    CASE w.at = "called" -> "opened"
      [] w.at = "opened" -> "written"
      [] w.at = "written" -> "returned"
      [] OTHER -> w.at

WjActive(w) == w.at \in {"called", "opened", "written"}

(***************************************************************************)
(* Analytics used by the driver: metrics/analytics.py                      *)
(***************************************************************************)
\* the permutations of the indices 0..n-1
IndexPermutations(n) ==
    {p \in [1..n -> 0..(n - 1)] : \A i, j \in 1..n : i # j => p[i] # p[j]}

\* np.argsort(scores) with the default kind: the sort is not stable, so the
\* outcome is any permutation that puts the scores in ascending order
argsort(scores) ==
    {p \in IndexPermutations(Len(scores)) :
        \A i \in 1..(Len(scores) - 1) : scores[p[i] + 1] <= scores[p[i + 1] + 1]}

\* seq[::-1]
Reversed(seq) == [i \in 1..Len(seq) |-> seq[Len(seq) + 1 - i]]

\* seq[:k], with Python's meaning of a negative k
SliceTo(seq, k) ==
    IF k >= 0 THEN SubSeq(seq, 1, Min(k, Len(seq)))
    ELSE SubSeq(seq, 1, IF Len(seq) + k > 0 THEN Len(seq) + k ELSE 0)

\* lines 42-47: the list of {token_index, score} built from the indices
ranking_entries(token_scores, indices) ==
    [i \in 1..Len(indices) |->
        [token_index |-> indices[i], score |-> token_scores[indices[i] + 1]]]

\* token_importance_ranking(token_scores, top_k): the rankings it can return
token_importance_ranking(token_scores, top_k) ==
    {ranking_entries(token_scores, SliceTo(Reversed(p), top_k)) : p \in argsort(token_scores)}

\* A latent is an array of a shape holding some vector of values.
Latent(vector, shape) == [vector |-> vector, shape |-> shape]

\* the solver that PCA(n_components=2), svd_solver "auto", takes for an array
\* of n_samples rows and n_features columns: the randomized one when the
\* larger side exceeds 500 and 2 < 0.8 * the smaller side, else the full one
uses_randomized_solver(n_samples, n_features) ==
    /\ (IF n_samples > n_features THEN n_samples ELSE n_features) > 500
    /\ 2 * 10 < 8 * Min(n_samples, n_features)

\* what the randomized solver can draw from numpy's global generator, whose
\* state is whatever the calls before have left (random_state is None)
RandomDraws == {"draw_a", "draw_b"}

\* PCA(n_components=2).fit_transform(stacked) with a solver: the projection
\* of every row on two components, and the two variance ratios, all computed
\* from the whole array by that solver with that draw
pca_fit_transform(latent_list, solver) ==
    [points |->
        [i \in 1..Len(latent_list) |->
            <<[row |-> latent_list[i].vector, component |-> 1, solver |-> solver],
              [row |-> latent_list[i].vector, component |-> 2, solver |-> solver]>>],
     explained_variance_ratio |->
        <<[of |-> [i \in 1..Len(latent_list) |-> latent_list[i].vector],
           component |-> 1, solver |-> solver],
          [of |-> [i \in 1..Len(latent_list) |-> latent_list[i].vector],
           component |-> 2, solver |-> solver]>>]

\* the degenerate case of one vector missing: PCA fitted on no usable data
compute_latent_pca_no_single_case(latents) ==
    IF Len(latents) <= 1
    THEN {[points |-> <<>>, explained_variance_ratio |-> <<0, 0>>]}
    ELSE {pca_fit_transform(latents, "full")}

\* compute_latent_pca(latents): the results it can return.  One result for
\* no vector, for one vector and whenever the full solver is taken; with the
\* randomized solver, one for each draw.
compute_latent_pca(latents) ==
    IF Len(latents) = 0
    THEN {[points |-> <<>>, explained_variance_ratio |-> <<0, 0>>]}
    ELSE IF Len(latents) = 1
    THEN {[points |-> << <<0, 0>> >>, explained_variance_ratio |-> <<1, 0>>]}
    ELSE IF uses_randomized_solver(Len(latents), Product(latents[1].shape))
    THEN {pca_fit_transform(latents, draw) : draw \in RandomDraws}
    ELSE {pca_fit_transform(latents, "full")}

(***************************************************************************)
(* Inline validation: generate.validate_attention_assets                   *)
(***************************************************************************)
ValidationError(kind, idx, path, nums) ==
    [kind |-> kind, idx |-> idx, path |-> path, nums |-> nums]

ShapeDimsPositive(shape) == \A i \in 1..Len(shape) : shape[i] > 0

\* lines 245-276: the errors that one manifest entry adds (none or one)
asset_entry_errors(files, entry) ==
    IF entry.path = <<>>
    THEN <<ValidationError("invalid_path_metadata", -1, entry.path, <<>>)>>
    ELSE IF entry.path \notin DOMAIN files
    THEN <<ValidationError("missing_file", -1, entry.path, <<>>)>>
    ELSE IF entry.shape = <<>>
    THEN <<ValidationError("invalid_shape_metadata", -1, entry.path, <<>>)>>
    ELSE IF ~ShapeDimsPositive(entry.shape)
    THEN <<ValidationError("invalid_shape_dimension", -1, entry.path, entry.shape)>>
    ELSE IF files[entry.path] # Product(entry.shape) * ItemSizeFloat16
    THEN <<ValidationError("size_mismatch", -1, entry.path,
                           <<Product(entry.shape) * ItemSizeFloat16, files[entry.path]>>)>>
    ELSE <<>>

RECURSIVE asset_errors_fail_fast(_, _)
\* the loop left at the first entry that has an error
asset_errors_fail_fast(files, entries) ==
    IF entries = <<>> THEN <<>>
    ELSE IF asset_entry_errors(files, Head(entries)) # <<>>
    THEN asset_entry_errors(files, Head(entries))
    ELSE asset_errors_fail_fast(files, Tail(entries))

RECURSIVE asset_errors(_, _)
asset_errors(files, entries) ==
    IF entries = <<>> THEN <<>>
    ELSE asset_entry_errors(files, Head(entries)) \o asset_errors(files, Tail(entries))

\* validate_attention_assets(output_dir, attention_files)
validate_attention_assets(files, entries) ==
    LET errors == asset_errors(files, entries)
    IN  [checked_files |-> Len(entries), passed |-> (Len(errors) = 0), errors |-> errors]

(***************************************************************************)
(* Standalone validator: validate_dataset.py                               *)
(***************************************************************************)
REQUIRED_METADATA_KEYS ==
    <<"schema_version", "generator", "prompt", "steps", "timesteps", "images",
      "layers", "attention_files">>

\* read_json: the document, or the exception raised
read_json(files, path) ==
    IF ~files[path].exists
    THEN [raised |-> "FileNotFoundError", doc |-> <<>>]
    ELSE IF ~files[path].complete
    THEN [raised |-> "ValueError", doc |-> <<>>]
    ELSE [raised |-> "", doc |-> files[path].doc]

\* the loop body without the test that the file exists: a record whose
\* file is absent adds no error
validate_entry_errors_no_exists(bins, entry, idx) ==
    IF entry.path = <<>>
    THEN <<ValidationError("has invalid path", idx, <<>>, <<>>)>>
    ELSE IF entry.shape = <<>>
    THEN <<ValidationError("has invalid shape", idx, <<>>, <<>>)>>
    ELSE IF ~ShapeDimsPositive(entry.shape)
    THEN <<ValidationError("has non-positive shape dimensions", idx, <<>>, <<>>)>>
    ELSE IF entry.path \in DOMAIN bins /\ Product(entry.shape) * 2 # bins[entry.path]
    THEN <<ValidationError("attention size mismatch", -1, entry.path,
                           <<Product(entry.shape) * 2, bins[entry.path]>>)>>
    ELSE <<>>

\* lines 62-87: the errors that attention_files[idx] adds (none or one)
validate_entry_errors(bins, entry, idx) ==
    IF entry.path = <<>>
    THEN <<ValidationError("has invalid path", idx, <<>>, <<>>)>>
    ELSE IF entry.shape = <<>>
    THEN <<ValidationError("has invalid shape", idx, <<>>, <<>>)>>
    ELSE IF ~ShapeDimsPositive(entry.shape)
    THEN <<ValidationError("has non-positive shape dimensions", idx, <<>>, <<>>)>>
    ELSE IF entry.path \notin DOMAIN bins
    THEN <<ValidationError("missing attention file", -1, entry.path, <<>>)>>
    ELSE IF Product(entry.shape) * 2 # bins[entry.path]
    THEN <<ValidationError("attention size mismatch", -1, entry.path,
                           <<Product(entry.shape) * 2, bins[entry.path]>>)>>
    ELSE <<>>

RECURSIVE validate_entries(_, _, _)
validate_entries(bins, entries, idx) ==
    IF idx >= Len(entries) THEN <<>>
    ELSE validate_entry_errors(bins, entries[idx + 1], idx)
         \o validate_entries(bins, entries, idx + 1)

IfThen(cond, e) == IF cond THEN <<e>> ELSE <<>>

\* dict.get(key, default) on a document
get(doc, key, default) == IF key \in DOMAIN doc THEN doc[key] ELSE default

\* lines 38-87 of validate, given the three documents
validate_documents(bins, metadata, metrics, latent_pca) ==
    LET missing == SelectSeq(REQUIRED_METADATA_KEYS, LAMBDA k : k \notin DOMAIN metadata)
        key_errors ==
            [i \in 1..Len(missing) |->
                ValidationError("metadata missing key", -1, <<missing[i]>>, <<>>)]
        \* line 42: isinstance(steps, int) fails for the None of a missing key
        steps_invalid == "steps" \notin DOMAIN metadata \/ metadata.steps <= 0
        steps == metadata.steps
        length_errors ==
            IfThen(Len(get(metadata, "timesteps", <<>>)) # steps,
                   ValidationError("metadata.timesteps length mismatch", -1, <<>>, <<>>))
            \o IfThen(Len(get(metadata, "images", <<>>)) # steps,
                   ValidationError("metadata.images length mismatch", -1, <<>>, <<>>))
            \o IfThen(Len(get(metrics, "latent_l2_norm", <<>>)) # steps,
                   ValidationError("metrics.latent_l2_norm length mismatch", -1, <<>>, <<>>))
            \o IfThen(Len(get(latent_pca, "points", <<>>)) # steps,
                   ValidationError("latent_pca.points length mismatch", -1, <<>>, <<>>))
            \o IfThen(Len(get(latent_pca, "explained_variance_ratio", <<>>)) # 2,
                   ValidationError("latent_pca.explained_variance_ratio must have exactly two values", -1, <<>>, <<>>))
    IN  IF steps_invalid
        THEN [status |-> "returned", error |-> "", passed |-> FALSE,
              errors |-> key_errors \o
                  <<ValidationError("metadata.steps must be a positive integer", -1, <<>>, <<>>)>>]
        ELSE LET errors == key_errors \o length_errors
                           \o validate_entries(bins, get(metadata, "attention_files", <<>>), 0)
             IN  [status |-> "returned", error |-> "", passed |-> (Len(errors) = 0),
                  errors |-> errors]

Raised(exc) == [status |-> "raised", error |-> exc, passed |-> FALSE, errors |-> <<>>]

\* validate(dataset_dir): lines 34-36 read the three documents, and an
\* exception of read_json leaves validate
validate(jsons, bins) ==
    LET md == read_json(jsons, JsonPath("metadata"))
        mt == read_json(jsons, JsonPath("metrics"))
        pca == read_json(jsons, JsonPath("latent_pca"))
    IN  IF md.raised # "" THEN Raised(md.raised)
        ELSE IF mt.raised # "" THEN Raised(mt.raised)
        ELSE IF pca.raised # "" THEN Raised(pca.raised)
        ELSE validate_documents(bins, md.doc[1], mt.doc[1], pca.doc[1])

(***************************************************************************)
(* The driver: generate.main                                               *)
(***************************************************************************)
\* pipe.scheduler.timesteps for n steps: decreasing timestep values
SchedulerTimesteps(n) == [i \in 1..n |-> TimestepOf(i - 1)]

TotalSteps == Len(run.timesteps)

\* the tensor that the attention module of the i-th selected layer hands to
\* record: [batch * heads, Q, K], K = number of prompt tokens in a cross
\* layer and K = Q in a self layer; the batch is doubled under guidance
LayerTensorShape(i) ==
    LET batch == IF recorder.cfg_enabled THEN 2 ELSE 1
        q == run.layer_query_tokens[i]
    IN  IF run.selected_layers[i].attention_type = "cross"
        THEN <<batch * run.heads, q, recorder.token_count>>
        ELSE <<batch * run.heads, q, q>>

RECURSIVE unet_forward(_, _, _)
\* pipe.unet(...): every recording processor calls record once, in order.
\* Returns the recorder and the log of the calls.
unet_forward(r, log, i) ==
    IF i > Len(run.selected_layers) THEN [rec |-> r, log |-> log, raised |-> ""]
    ELSE LET layer == run.selected_layers[i]
             inp == [attention_type |-> layer.attention_type,
                     shape |-> LayerTensorShape(i), heads |-> run.heads]
             out == record(r, layer.layer_id, inp.attention_type, inp.shape, inp.heads)
             log1 == Append(log, LoggedCall(r, layer.layer_id, inp, out))
         IN  IF out.raised # "" THEN [rec |-> out.rec, log |-> log1, raised |-> out.raised]
             ELSE unet_forward(out.rec, log1, i + 1)

\* None for an optional scalar
NoneScalar == <<>>

\* the image list not extended by save_image
step_images_not_appended(paths, step) == paths

\* serializer.save_image(step_index, step_image): image_paths afterwards
step_images(paths, step) == Append(paths, image_path(step))

\* lines 420-438: the per-step histories after the scheduler step.  A latent
\* or a noise prediction is represented by the index of its step.
step_histories(h, step) ==
    [h EXCEPT
        !.noise_history = Append(@, step),
        !.noise_norms = Append(@, step),
        !.latent_history = Append(@, step),
        !.latent_norms = Append(@, step),
        !.cosine_to_previous =
            Append(@, IF Len(h.latent_history) + 1 = 1 THEN NoneScalar
                      ELSE <<h.latent_history[Len(h.latent_history)], step>>)]

\* lines 446-450: the save_attention calls to make for a drained step
attention_saves(step_data) ==
    [i \in 1..Len(step_data.cross_maps) |->
        [layer_id |-> step_data.cross_maps[i][1], attention_type |-> "cross",
         array |-> step_data.cross_maps[i][2]]]
    \o [i \in 1..Len(step_data.self_maps) |->
        [layer_id |-> step_data.self_maps[i][1], attention_type |-> "self",
         array |-> step_data.self_maps[i][2]]]

\* lines 452-477: the per-step metric rows
step_metrics(h, step, step_data, token_count) ==
    [h EXCEPT
        !.cross_entropy_steps =
            Append(@, [step |-> step,
                       mean |-> IF step_data.cross_entropy # <<>>
                                THEN <<DictKeys(step_data.cross_entropy)>> ELSE NoneScalar,
                       by_layer |-> step_data.cross_entropy]),
        !.self_entropy_steps =
            Append(@, [step |-> step,
                       mean |-> IF step_data.self_entropy # <<>>
                                THEN <<DictKeys(step_data.self_entropy)>> ELSE NoneScalar,
                       by_layer |-> step_data.self_entropy]),
        !.mean_token_activation_steps =
            Append(@, IF step_data.mean_token_activation.none
                      THEN [j \in 1..token_count |-> ZeroEntry]
                      ELSE step_data.mean_token_activation.vec)]

\* write_progress: the record put into the progress file
ProgressRecord(stage, current_step, total_steps) ==
    [stage |-> stage, current_step |-> current_step, total_steps |-> total_steps]

\* lines 514-556
build_metadata ==
    [schema_version |-> "1.0.0",
     generator |-> [max_layers |-> sel_args.max_layers,
                    attention_resolution |-> recorder.attention_resolution,
                    self_attention_resolution |-> recorder.self_attention_resolution],
     prompt |-> [token_count |-> recorder.token_count],
     steps |-> Len(run.timesteps),
     timesteps |-> run.timesteps,
     images |-> image_paths,
     layers |-> [i \in 1..Len(run.selected_layers) |->
                    [id |-> run.selected_layers[i].layer_id,
                     processor_key |-> run.selected_layers[i].processor_key,
                     attention_type |-> run.selected_layers[i].attention_type]],
     attention_files |-> attention_files,
     artifacts |-> [metrics |-> "metrics.json", latent_pca |-> "latent_pca.json"]]

\* lines 490-505 and 558-571
build_metrics ==
    LET rows == hist.mean_token_activation_steps
    IN  [latent_l2_norm |-> hist.latent_norms,
         predicted_noise_l2_norm |-> hist.noise_norms,
         cosine_similarity_to_previous |-> hist.cosine_to_previous,
         cross_attention_entropy |-> hist.cross_entropy_steps,
         self_attention_entropy |-> hist.self_entropy_steps,
         mean_token_activation |-> rows,
         attention_kl_divergence |->
             [i \in 1..Len(rows) |-> IF i = 1 THEN NoneScalar ELSE <<i - 2, i - 1>>],
         token_dominance |->
             [scores |-> [j \in 1..Len(rows[1]) |->
                             [mean_over_steps |-> [i \in 1..Len(rows) |-> rows[i][j]]]],
              ranking_length |-> Min(25, recorder.token_count)],
         shape_validation |-> [passed |-> (Len(shape_errors) = 0), errors |-> shape_errors]]

\* lines 377-382: the shape of a latent without its batch axis, for the
\* default height and width
LatentShape == <<4, 64, 64>>

\* line 487: the latents of the steps, as float32 arrays
pca_input == [i \in 1..Len(hist.latent_history) |-> Latent(hist.latent_history[i], LatentShape)]

\* lines 573-576
build_latent_pca(pca_result) ==
    [points |-> pca_result.points,
     explained_variance_ratio |-> pca_result.explained_variance_ratio]

\* lines 590-602
build_validation(metadata, metrics, latent_pca) ==
    [metadata_has_required_keys |->
         ({"schema_version", "prompt", "steps", "timesteps", "images", "layers",
           "attention_files"} \subseteq DOMAIN metadata),
     pca_points_match_steps |-> (Len(latent_pca.points) = metadata.steps),
     metrics_steps_match |-> (Len(metrics.latent_l2_norm) = metadata.steps),
     attention_assets |-> validate_attention_assets(bin_files, attention_files)]

NoExports == <<>>

(***************************************************************************)
(* The local service: local_service.py                                     *)
(***************************************************************************)
\* uuid.uuid4().hex[:10] of the n-th request: distinct for distinct requests
JobId(n) == <<"job_", n>>

\* the output name of a request
OutputName(n) == <<"run_", n>>

\* _read_progress when the file is missing or unreadable
NoProgressRead == <<>>

\* the progress dict of a job that has none yet, and "progress or {}"
EmptyProgress == [stage |-> "", error |-> ""]

\* what _read_progress can return: None, or the record in the file (the
\* generator writes no error into its progress records)
ProgressReads == {NoProgressRead, <<[stage |-> "generating", error |-> ""]>>}

\* lines 220-229: the JobState that create_job registers
NewJobState(n) ==
    [id |-> JobId(n), status |-> "running", output_name |-> OutputName(n),
     progress |-> EmptyProgress, dataset_url |-> None, error |-> None, logs |-> ""]

\* _has_running_job, under the lock
has_running_job(js) == \E i \in 1..Len(js) : js[i][2].status = "running"

\* _has_running_job that finds none
has_running_job_never(js) == FALSE

\* _update_job(job_id, **kwargs), under the lock: the registry afterwards
update_job(js, job_id, kwargs) ==
    LET job == DictGet(js, job_id)
    IN  DictSet(js, job_id,
                [f \in DOMAIN job |-> IF f \in DOMAIN kwargs THEN kwargs[f] ELSE job[f]])

\* the characters that str.strip() removes: those for which str.isspace()
\* holds.  In the order below: tab, line feed, form feed, carriage return,
\* space, then U+000B, U+001C, U+001D, U+001E, U+001F, U+0085, U+00A0 and
\* U+1680.  The others (U+2000 to U+200A, U+2028, U+2029, U+202F, U+205F,
\* U+3000) cannot be written in a string of this module, so no text here
\* contains them.
Whitespace ==
    {"\t", "\n", "\f", "\r", " ",
     "", "", "", "", "", "", " ", " "}

RECURSIVE FirstNonSpace(_, _)
\* the index of the first character of s from i on that is not whitespace
FirstNonSpace(s, i) ==
    IF i > Len(s) THEN i
    ELSE IF SubSeq(s, i, i) \in Whitespace THEN FirstNonSpace(s, i + 1)
    ELSE i

RECURSIVE LastNonSpace(_, _)
\* the index of the last character of s up to i that is not whitespace
LastNonSpace(s, i) ==
    IF i < 1 THEN 0
    ELSE IF SubSeq(s, i, i) \in Whitespace THEN LastNonSpace(s, i - 1)
    ELSE i

\* str.strip()
strip(s) == SubSeq(s, FirstNonSpace(s, 1), LastNonSpace(s, Len(s)))

\* line 121: the number of characters of the logs that are kept
LogLimit == 10000

\* lines 120-122: "\n".join([stdout.strip(), stderr.strip()]).strip(), cut
\* to its last LogLimit characters
combined_logs(stdout, stderr) ==
    LET joined == strip(strip(stdout) \o "\n" \o strip(stderr))
    IN  IF Len(joined) > LogLimit
        THEN SubSeq(joined, Len(joined) - LogLimit + 1, Len(joined))
        ELSE joined

\* line 136: progress.get("error") or stderr.strip() or "Generation failed"
error_message(job_progress, stderr) ==
    IF job_progress.error # "" THEN job_progress.error
    ELSE IF strip(stderr) # "" THEN strip(stderr)
    ELSE "Generation failed"

\* the fields written whatever the exit code: every exit is a success
monitor_update_always_completed(returncode, job_progress, stdout, stderr, output_name) ==
    [status |-> "completed", progress |-> job_progress,
     dataset_url |-> Some(<<"/datasets/", output_name>>),
     logs |-> combined_logs(stdout, stderr)]

\* lines 119-143: the fields that _monitor_job writes when the process is over
monitor_update(returncode, job_progress, stdout, stderr, output_name) ==
    IF returncode = 0
    THEN [status |-> "completed", progress |-> job_progress,
          dataset_url |-> Some(<<"/datasets/", output_name>>),
          logs |-> combined_logs(stdout, stderr)]
    ELSE [status |-> "failed", progress |-> job_progress,
          error |-> Some(error_message(job_progress, stderr)),
          logs |-> combined_logs(stdout, stderr)]

\* no process yet, no monitor thread yet; read is the progress that the
\* monitor thread has read and not yet written into the job
NoProcess ==
    [state |-> "none", returncode |-> 0, stdout |-> "", stderr |-> "",
     monitor |-> "not_started", read |-> NoProgressRead]

(***************************************************************************)
(* Values of the parts of the state that a specification does not use.     *)
(***************************************************************************)
JsonTargets ==
    {JsonPath("metadata"), JsonPath("metrics"), JsonPath("latent_pca"), JsonPath("validation")}

AllJsonPaths == JsonTargets \cup {temp_target(t) : t \in JsonTargets}

NoFiles == [p \in AllJsonPaths |-> Absent]

NoSelArgs ==
    [ordered_items |-> <<>>, include_self_attention |-> FALSE,
     include_cross_attention |-> FALSE, layer_patterns |-> <<>>, max_layers |-> 0]

NoRun ==
    [timesteps |-> <<>>, selected_layers |-> <<>>, layer_query_tokens |-> <<>>,
     heads |-> 1, fail_on_shape_error |-> FALSE]

NoHist ==
    [latent_history |-> <<>>, noise_history |-> <<>>, latent_norms |-> <<>>,
     noise_norms |-> <<>>, cosine_to_previous |-> <<>>, cross_entropy_steps |-> <<>>,
     self_entropy_steps |-> <<>>, mean_token_activation_steps |-> <<>>]

NoVal == [status |-> "none", error |-> "", passed |-> FALSE, errors |-> <<>>]

SelIdle == sel_args = NoSelArgs /\ sel_out = NoSelOut

RecIdle == recorder = NewRecorder(1, 1, 1, FALSE) /\ call_log = <<>> /\ drained = <<>>

SerIdle ==
    /\ attention_files = <<>> /\ image_paths = <<>> /\ bin_files = <<>>
    /\ json_files = NoFiles /\ wj = WjIdle

DrvIdle ==
    /\ run = NoRun /\ step_index = 0 /\ hist = NoHist /\ shape_errors = <<>>
    /\ pending = <<>> /\ exports = <<>> /\ progress = <<>> /\ val = NoVal

NoRankArgs == [token_scores |-> <<>>, top_k |-> 0]

PcaIdle == pca_args = <<>> /\ pca_out = <<>>

AnaIdle == rank_args = NoRankArgs /\ rank_out = <<>> /\ PcaIdle

anaVars == <<rank_args, rank_out, pca_args, pca_out>>

SvcIdle == requests = <<>> /\ jobs = <<>> /\ processes = <<>>

svcVars == <<requests, jobs, processes>>
selVars == <<sel_args, sel_out>>
recVars == <<recorder, call_log, drained>>
serVars == <<attention_files, image_paths, bin_files, json_files, wj>>
drvVars == <<run, step_index, hist, shape_errors, pending, exports, progress, val>>

(***************************************************************************)
(* SpecSel: one call of create_recording_processors on any argument list.  *)
(***************************************************************************)
SelInit ==
    /\ sel_args \in SelArgs
    /\ sel_out = NoSelOut
    /\ pc = "select"
    /\ RecIdle /\ SerIdle /\ DrvIdle /\ AnaIdle /\ SvcIdle

Select ==
    /\ pc = "select"
    /\ sel_out' = create_recording_processors(sel_args)
    /\ pc' = "selected"
    /\ UNCHANGED <<svcVars, anaVars, sel_args, recVars, serVars, drvVars>>

SelNext == Select

SpecSel == SelInit /\ [][SelNext]_vars

(***************************************************************************)
(* SpecRec: one recorder driven through set_step, record calls with any    *)
(* tensor shape, head count and type, and drain_step.                      *)
(***************************************************************************)
TokenCounts == {1, 2}
Resolutions == {1, 2}

\* Arguments of record: attention type, tensor shape, head count.
RecordInputs ==
    { [attention_type |-> "cross", shape |-> <<4, 4, 2>>, heads |-> 2],
      [attention_type |-> "cross", shape |-> <<4, 4, 1>>, heads |-> 2],
      [attention_type |-> "cross", shape |-> <<4, 9, 3>>, heads |-> 4],
      [attention_type |-> "cross", shape |-> <<4, 3, 2>>, heads |-> 2],
      [attention_type |-> "cross", shape |-> <<4, 8, 2>>, heads |-> 4],
      [attention_type |-> "cross", shape |-> <<4, 4>>, heads |-> 2],
      [attention_type |-> "self", shape |-> <<4, 4>>, heads |-> 2],
      [attention_type |-> "cross", shape |-> <<2, 2, 4, 2>>, heads |-> 2],
      [attention_type |-> "cross", shape |-> <<4, 4, 2>>, heads |-> 0],
      [attention_type |-> "self", shape |-> <<4, 4, 4>>, heads |-> -1],
      [attention_type |-> "cross", shape |-> <<4, 4, 2>>, heads |-> 3],
      [attention_type |-> "self", shape |-> <<4, 4, 4>>, heads |-> 3],
      [attention_type |-> "self", shape |-> <<4, 4, 4>>, heads |-> 2],
      [attention_type |-> "self", shape |-> <<2, 3, 3>>, heads |-> 2],
      [attention_type |-> "other", shape |-> <<4, 4, 2>>, heads |-> 2],
      [attention_type |-> "other", shape |-> <<4, 4>>, heads |-> 0] }

RecInit ==
    /\ recorder \in {NewRecorder(tc, ar, sr, cfg) :
                         tc \in TokenCounts, ar \in Resolutions,
                         sr \in Resolutions, cfg \in BOOLEAN}
    /\ call_log = <<>>
    /\ drained = <<>>
    /\ pc = "await_set_step"
    /\ SelIdle /\ SerIdle /\ DrvIdle /\ AnaIdle /\ SvcIdle

RecSetStep ==
    /\ pc = "await_set_step"
    /\ recorder.current_step + 1 < MaxSteps
    /\ recorder' = set_step(recorder, recorder.current_step + 1,
                            TimestepOf(recorder.current_step + 1))
    /\ call_log' = <<>>
    /\ drained' = <<>>
    /\ pc' = "in_step"
    /\ UNCHANGED <<svcVars, anaVars, selVars, serVars, drvVars>>

RecRecord ==
    /\ pc = "in_step"
    /\ Len(call_log) < MaxCalls
    /\ \E inp \in RecordInputs :
         LET layer_id == LayerId(Len(call_log))
             out == record(recorder, layer_id, inp.attention_type, inp.shape, inp.heads)
         IN  /\ recorder' = out.rec
             /\ call_log' = Append(call_log, LoggedCall(recorder, layer_id, inp, out))
             /\ pc' = IF out.raised = "" THEN "in_step" ELSE "record_raised"
    /\ UNCHANGED <<svcVars, anaVars, drained, selVars, serVars, drvVars>>

RecDrain ==
    /\ pc = "in_step"
    /\ LET out == drain_step(recorder)
       IN  /\ recorder' = out.rec
           /\ drained' = out.output
           /\ pc' = IF out.raised = "" THEN "await_set_step" ELSE "drain_raised"
    /\ UNCHANGED <<svcVars, anaVars, call_log, selVars, serVars, drvVars>>

RecNext == RecSetStep \/ RecRecord \/ RecDrain

SpecRec == RecInit /\ [][RecNext]_vars

(***************************************************************************)
(* SpecSer: save_attention calls on one serializer, with any step, layer,  *)
(* type and array.                                                         *)
(***************************************************************************)
SaveTypes == {"cross", "self", "other"}
SaveShapes == {<<2, 1, 1>>, <<2, 2>>}

SerInit ==
    /\ attention_files = <<>> /\ image_paths = <<>> /\ bin_files = <<>>
    /\ json_files = NoFiles /\ wj = WjIdle
    /\ call_log = <<>>
    /\ pc = "serializer"
    /\ recorder = NewRecorder(1, 1, 1, FALSE) /\ drained = <<>>
    /\ SelIdle /\ DrvIdle /\ AnaIdle /\ SvcIdle

\* a caller invokes save_attention(step_index, layer_id, attention_type, array)
SerSaveAttention ==
    /\ pc = "serializer"
    /\ Len(call_log) < MaxCalls
    /\ \E step \in 0..(MaxSteps - 1), n \in 0..1, type \in SaveTypes, shape \in SaveShapes :
         LET out == save_attention(bin_files, attention_files, step, LayerId(n), type,
                                   [shape |-> shape])
         IN  /\ bin_files' = out.files
             /\ attention_files' = out.manifest
             /\ call_log' = Append(call_log,
                    [step |-> step, layer_id |-> LayerId(n), attention_type |-> type,
                     shape |-> shape, raised |-> out.raised])
    /\ UNCHANGED <<svcVars, anaVars, selVars, recorder, drained, image_paths, json_files, wj, pc, drvVars>>

SerNext == SerSaveAttention

SpecSer == SerInit /\ [][SerNext]_vars

(***************************************************************************)
(* SpecVal: validate_dataset.validate on a dataset directory whose three   *)
(* documents are present, with step-indexed arrays of any lengths, or with *)
(* a key missing.                                                          *)
(***************************************************************************)
StepArrays ==
    {"timesteps", "images", "latent_l2_norm", "predicted_noise_l2_norm",
     "cosine_similarity_to_previous", "cross_attention_entropy",
     "self_attention_entropy", "mean_token_activation", "attention_kl_divergence",
     "points"}

\* an array of n entries
ArrayOfLen(n) == [i \in 1..n |-> 0]

\* the attention file on disk in the directory: 2 x 1 x 1 float16 values
ValBinPath == attention_path(0, LayerId(0), "cross")
ValBins == (ValBinPath :> 4)

\* manifests: empty, one good entry, one entry whose file is missing, one
\* entry whose shape does not agree with the file
ValManifests ==
    { <<>>,
      <<[step |-> 0, layer_id |-> LayerId(0), attention_type |-> "cross",
         path |-> ValBinPath, shape |-> <<2, 1, 1>>, dtype |-> "float16"]>>,
      <<[step |-> 1, layer_id |-> LayerId(0), attention_type |-> "cross",
         path |-> attention_path(1, LayerId(0), "cross"), shape |-> <<2, 1, 1>>,
         dtype |-> "float16"]>>,
      <<[step |-> 0, layer_id |-> LayerId(0), attention_type |-> "cross",
         path |-> ValBinPath, shape |-> <<2, 2, 2>>, dtype |-> "float16"]>> }

ValMetadata(steps, len, manifest) ==
    [schema_version |-> "1.0.0", generator |-> <<>>, prompt |-> <<>>,
     steps |-> steps,
     timesteps |-> ArrayOfLen(len["timesteps"]),
     images |-> ArrayOfLen(len["images"]),
     layers |-> <<>>,
     attention_files |-> manifest]

ValMetrics(len) ==
    [latent_l2_norm |-> ArrayOfLen(len["latent_l2_norm"]),
     predicted_noise_l2_norm |-> ArrayOfLen(len["predicted_noise_l2_norm"]),
     cosine_similarity_to_previous |-> ArrayOfLen(len["cosine_similarity_to_previous"]),
     cross_attention_entropy |-> ArrayOfLen(len["cross_attention_entropy"]),
     self_attention_entropy |-> ArrayOfLen(len["self_attention_entropy"]),
     mean_token_activation |-> ArrayOfLen(len["mean_token_activation"]),
     attention_kl_divergence |-> ArrayOfLen(len["attention_kl_divergence"])]

ValLatentPca(len) ==
    [points |-> ArrayOfLen(len["points"]), explained_variance_ratio |-> <<1, 0>>]

\* the keys that validate reads with dict.get, and NoKey for none left out
ReadKeys ==
    {"steps", "timesteps", "images", "attention_files", "latent_l2_norm", "points",
     "explained_variance_ratio"}

NoKey == ""

\* the document without the key
Without(doc, key) == [k \in DOMAIN doc \ {key} |-> doc[k]]

\* the three documents with arrays of any lengths, or with right lengths
\* and one key left out
ValInit ==
    /\ \E steps \in 1..MaxSteps, manifest \in ValManifests :
         \E len \in [StepArrays -> {steps, steps + 1}], key \in ReadKeys \cup {NoKey} :
            /\ (key # NoKey) =>
                  /\ len = [a \in StepArrays |-> steps]
                  /\ manifest = <<>>
            /\ json_files = [p \in AllJsonPaths |->
                CASE p = JsonPath("metadata") ->
                        Complete(Without(ValMetadata(steps, len, manifest), key))
                  [] p = JsonPath("metrics") -> Complete(Without(ValMetrics(len), key))
                  [] p = JsonPath("latent_pca") -> Complete(Without(ValLatentPca(len), key))
                  [] OTHER -> Absent]
    /\ bin_files = ValBins
    /\ attention_files = <<>> /\ image_paths = <<>> /\ wj = WjIdle
    /\ pc = "validate"
    /\ SelIdle /\ RecIdle /\ DrvIdle /\ AnaIdle /\ SvcIdle

\* validate(dataset_dir)
ValRun ==
    /\ pc = "validate"
    /\ val' = validate(json_files, bin_files)
    /\ pc' = "validated"
    /\ UNCHANGED <<svcVars, anaVars, selVars, recVars, serVars, run, step_index, hist, shape_errors,
                   pending, exports, progress>>

ValNext == ValRun

SpecVal == ValInit /\ [][ValNext]_vars

(***************************************************************************)
(* SpecRank: one call of token_importance_ranking on any score vector.     *)
(***************************************************************************)
\* score values: 0 < 1 < 2 stand for three distinct floats
ScoreValues == {0, 1, 2}

RankInit ==
    /\ \E n \in 0..MaxItems, k \in (-1)..(MaxItems + 1) :
         \E scores \in [1..n -> ScoreValues] :
            rank_args = [token_scores |-> scores, top_k |-> k]
    /\ rank_out = <<>>
    /\ pc = "rank"
    /\ SelIdle /\ RecIdle /\ SerIdle /\ DrvIdle /\ PcaIdle /\ SvcIdle

Rank ==
    /\ pc = "rank"
    /\ \E ranking \in token_importance_ranking(rank_args.token_scores, rank_args.top_k) :
         rank_out' = <<ranking>>
    /\ pc' = "ranked"
    /\ UNCHANGED <<svcVars, rank_args, pca_args, pca_out, selVars, recVars, serVars, drvVars>>

RankNext == Rank

SpecRank == RankInit /\ [][RankNext]_vars

(***************************************************************************)
(* SpecPca: calls of compute_latent_pca on one list of latents.            *)
(***************************************************************************)
\* latents: 0, 1, 2 stand for three distinct vectors of values, in arrays of
\* the shape of a run of 16 x 16 pixels or of a run of 512 x 512 pixels
LatentValues == {0, 1, 2}
LatentShapes == {<<4, 2, 2>>, <<4, 64, 64>>}

PcaInit ==
    /\ \E n \in 0..MaxItems, shape \in LatentShapes :
         pca_args \in [1..n -> {Latent(v, shape) : v \in LatentValues}]
    /\ pca_out = <<>>
    /\ pc = "pca"
    /\ rank_args = NoRankArgs /\ rank_out = <<>>
    /\ SelIdle /\ RecIdle /\ SerIdle /\ DrvIdle /\ SvcIdle

\* compute_latent_pca(latents)
Pca ==
    /\ pc = "pca"
    /\ Len(pca_out) < MaxCalls
    /\ \E result \in compute_latent_pca(pca_args) : pca_out' = Append(pca_out, result)
    /\ UNCHANGED <<svcVars, pca_args, rank_args, rank_out, pc, selVars, recVars, serVars, drvVars>>

PcaNext == Pca

SpecPca == PcaInit /\ [][PcaNext]_vars

(***************************************************************************)
(* SpecSvc: the local service handling create_job requests in concurrent   *)
(* worker threads, the generator processes and their monitor threads.      *)
(* Every block under _jobs_lock is one step, and so is every statement of  *)
(* a thread between two of them that other threads can observe.            *)
(***************************************************************************)
Requests == 1..MaxCalls

\* exit codes of a generator process, and what it can have written to its
\* stdout and stderr: nothing, or a few lines with blanks around them
ExitCodes == {0, 1}
ProcessOutputs ==
    { [stdout |-> "", stderr |-> ""],
      [stdout |-> "out\n", stderr |-> " Traceback\n"] }

SvcInit ==
    /\ requests = [r \in Requests |-> [at |-> "pending", response |-> 0, job_status |-> ""]]
    /\ jobs = <<>>
    /\ processes = [r \in Requests |-> NoProcess]
    /\ pc = "service"
    /\ SelIdle /\ RecIdle /\ SerIdle /\ DrvIdle /\ AnaIdle

\* line 179-180: the request is received and the registry is searched for a
\* running job; 409 when there is one
CreateCheck(r) ==
    /\ requests[r].at = "pending"
    /\ requests' = [requests EXCEPT ![r] =
           IF has_running_job(jobs)
           THEN [at |-> "rejected", response |-> 409, job_status |-> ""]
           ELSE [at |-> "checked", response |-> 0, job_status |-> ""]]
    /\ UNCHANGED <<jobs, processes, pc, anaVars, selVars, recVars, serVars, drvVars>>

\* lines 182-217: subprocess.Popen starts the generator
CreateSpawn(r) ==
    /\ requests[r].at = "checked"
    /\ processes' = [processes EXCEPT ![r] = [NoProcess EXCEPT !.state = "running"]]
    /\ requests' = [requests EXCEPT ![r].at = "spawned"]
    /\ UNCHANGED <<jobs, pc, anaVars, selVars, recVars, serVars, drvVars>>

\* lines 219-232: the job is put into the registry, under the lock
CreateRegister(r) ==
    /\ requests[r].at = "spawned"
    /\ jobs' = DictSet(jobs, JobId(r), NewJobState(r))
    /\ requests' = [requests EXCEPT ![r].at = "registered"]
    /\ UNCHANGED <<processes, pc, anaVars, selVars, recVars, serVars, drvVars>>

\* lines 234-239: the monitor thread is started
CreateStartMonitor(r) ==
    /\ requests[r].at = "registered"
    /\ processes' = [processes EXCEPT ![r].monitor = "polling"]
    /\ requests' = [requests EXCEPT ![r].at = "monitor_started"]
    /\ UNCHANGED <<jobs, pc, anaVars, selVars, recVars, serVars, drvVars>>

\* line 241: the request is answered with the job as it is now
CreateReturn(r) ==
    /\ requests[r].at = "monitor_started"
    /\ requests' = [requests EXCEPT ![r] =
           [at |-> "returned", response |-> 200,
            job_status |-> DictGet(jobs, JobId(r)).status]]
    /\ UNCHANGED <<jobs, processes, pc, anaVars, selVars, recVars, serVars, drvVars>>

\* the generator process ends
ProcessExit(r) ==
    /\ processes[r].state = "running"
    /\ \E code \in ExitCodes, out \in ProcessOutputs :
         processes' = [processes EXCEPT ![r].state = "exited",
                                        ![r].returncode = code,
                                        ![r].stdout = out.stdout,
                                        ![r].stderr = out.stderr]
    /\ UNCHANGED <<requests, jobs, pc, anaVars, selVars, recVars, serVars, drvVars>>

\* lines 113-115: poll() finds the process running and the progress file is
\* read; with nothing read the thread sleeps and polls again
MonitorPoll(r) ==
    /\ processes[r].monitor = "polling"
    /\ processes[r].state = "running"
    /\ \E read \in ProgressReads :
         processes' = IF read = NoProgressRead THEN processes
                      ELSE [processes EXCEPT ![r].monitor = "updating",
                                             ![r].read = read]
    /\ UNCHANGED <<requests, jobs, pc, anaVars, selVars, recVars, serVars, drvVars>>

\* lines 116-117: the progress read is written into the job, under the
\* lock, whatever has become of the process since poll()
MonitorUpdateProgress(r) ==
    /\ processes[r].monitor = "updating"
    /\ jobs' = update_job(jobs, JobId(r), [progress |-> processes[r].read[1]])
    /\ processes' = [processes EXCEPT ![r].monitor = "polling",
                                      ![r].read = NoProgressRead]
    /\ UNCHANGED <<requests, pc, anaVars, selVars, recVars, serVars, drvVars>>

\* lines 113 and 119: poll() sees the exit; communicate() collects the output
MonitorCommunicate(r) ==
    /\ processes[r].monitor = "polling"
    /\ processes[r].state = "exited"
    /\ processes' = [processes EXCEPT ![r].monitor = "communicated"]
    /\ UNCHANGED <<requests, jobs, pc, anaVars, selVars, recVars, serVars, drvVars>>

\* lines 120-143: the logs are put together, the progress file is read a
\* last time, the final status is written under the lock and the thread ends
MonitorFinish(r) ==
    /\ processes[r].monitor = "communicated"
    /\ \E read \in ProgressReads :
         LET job_progress == IF read = NoProgressRead THEN EmptyProgress ELSE read[1]
         IN  jobs' = update_job(jobs, JobId(r),
                        monitor_update(processes[r].returncode, job_progress,
                                       processes[r].stdout, processes[r].stderr,
                                       OutputName(r)))
    /\ processes' = [processes EXCEPT ![r].monitor = "returned"]
    /\ UNCHANGED <<requests, pc, anaVars, selVars, recVars, serVars, drvVars>>

SvcNext ==
    \E r \in Requests :
        \/ CreateCheck(r) \/ CreateSpawn(r) \/ CreateRegister(r)
        \/ CreateStartMonitor(r) \/ CreateReturn(r) \/ ProcessExit(r)
        \/ MonitorPoll(r) \/ MonitorUpdateProgress(r)
        \/ MonitorCommunicate(r) \/ MonitorFinish(r)

SpecSvc == SvcInit /\ [][SvcNext]_vars

\* the steps of the worker thread of request r after its check
WorkerThread(r) ==
    CreateSpawn(r) \/ CreateRegister(r) \/ CreateStartMonitor(r) \/ CreateReturn(r)

\* the steps of the monitor thread of request r that do not wait for the
\* generator process
MonitorThread(r) ==
    MonitorUpdateProgress(r) \/ MonitorCommunicate(r) \/ MonitorFinish(r)

\* the threads of the service keep running: a worker thread that has passed
\* the check goes on to its return, and a monitor thread goes on to its end
SvcFairness ==
    \A r \in Requests : WF_vars(WorkerThread(r)) /\ WF_vars(MonitorThread(r))

SpecSvcLive == SvcInit /\ [][SvcNext]_vars /\ SvcFairness

(***************************************************************************)
(* SpecAssets: validate_attention_assets on an output directory and any    *)
(* list of attention file records.                                         *)
(***************************************************************************)
AssetPathA == attention_path(0, LayerId(0), "cross")
AssetPathB == attention_path(0, LayerId(1), "self")
AssetPathMissing == attention_path(1, LayerId(0), "cross")

\* the files of the directory: 2 x 1 x 1 and 2 x 2 float16 values
AssetBins == (AssetPathA :> 4) @@ (AssetPathB :> 8)

AssetEntry(path, shape) == [path |-> path, shape |-> shape]

AssetEntries ==
    { AssetEntry(AssetPathA, <<2, 1, 1>>),
      AssetEntry(AssetPathB, <<2, 2>>),
      AssetEntry(<<>>, <<2, 1, 1>>),
      AssetEntry(AssetPathMissing, <<2, 1, 1>>),
      AssetEntry(AssetPathMissing, <<>>),
      AssetEntry(AssetPathMissing, <<2, 0>>),
      AssetEntry(AssetPathA, <<>>),
      AssetEntry(AssetPathA, <<2, 0>>),
      AssetEntry(AssetPathA, <<2, 2>>) }

AssetsInit ==
    /\ \E n \in 0..MaxItems : attention_files \in [1..n -> AssetEntries]
    /\ bin_files = AssetBins
    /\ image_paths = <<>> /\ json_files = NoFiles /\ wj = WjIdle
    /\ pc = "assets"
    /\ SelIdle /\ RecIdle /\ DrvIdle /\ AnaIdle /\ SvcIdle

\* validate_attention_assets(output_dir, attention_files)
AssetsValidate ==
    /\ pc = "assets"
    /\ LET report == validate_attention_assets(bin_files, attention_files)
       IN  val' = [status |-> "returned", error |-> "", passed |-> report.passed,
                   errors |-> report.errors, checked_files |-> report.checked_files]
    /\ pc' = "assets_validated"
    /\ UNCHANGED <<svcVars, anaVars, selVars, recVars, serVars, run, step_index, hist,
                   shape_errors, pending, exports, progress>>

AssetsNext == AssetsValidate

SpecAssets == AssetsInit /\ [][AssetsNext]_vars

(***************************************************************************)
(* SpecJson: write_json calls on one output directory, each of which may   *)
(* be cut short by the death of the process.                               *)
(***************************************************************************)
JsonPayloads == {"docA", "docB"}
JsonSpecTargets == {JsonPath("metadata"), JsonPath("metrics")}

JsonInit ==
    /\ json_files = NoFiles
    /\ wj = WjIdle
    /\ pc = "json"
    /\ attention_files = <<>> /\ image_paths = <<>> /\ bin_files = <<>>
    /\ SelIdle /\ RecIdle /\ DrvIdle /\ AnaIdle /\ SvcIdle

\* a caller invokes write_json(path, payload)
JsonCall ==
    /\ pc = "json"
    /\ ~WjActive(wj)
    /\ wj.count < MaxWrites
    /\ \E target \in JsonSpecTargets, payload \in JsonPayloads :
         wj' = WjCall(wj, json_files, target, payload)
    /\ UNCHANGED <<svcVars, anaVars, json_files, pc, attention_files, image_paths, bin_files,
                   selVars, recVars, drvVars>>

\* the call in progress takes its next step
JsonStep ==
    /\ pc = "json"
    /\ WjActive(wj)
    /\ json_files' = write_json_files(json_files, wj)
    /\ wj' = [wj EXCEPT !.at = write_json_at(wj)]
    /\ UNCHANGED <<svcVars, anaVars, pc, attention_files, image_paths, bin_files,
                   selVars, recVars, drvVars>>

\* the process dies inside the call; the files stay as they are
JsonCrash ==
    /\ pc = "json"
    /\ WjActive(wj)
    /\ wj' = [wj EXCEPT !.at = "crashed"]
    /\ UNCHANGED <<svcVars, anaVars, json_files, pc, attention_files, image_paths, bin_files,
                   selVars, recVars, drvVars>>

JsonNext == JsonCall \/ JsonStep \/ JsonCrash

SpecJson == JsonInit /\ [][JsonNext]_vars

(***************************************************************************)
(* Spec: one run of generate.main from the entry of the sampling loop to   *)
(* its end, the process possibly dying at any point, followed by a run of  *)
(* the standalone validator on the output directory.                       *)
(***************************************************************************)
\* Layer selections of a run: arguments given to create_recording_processors.
RunSelArgs ==
    { [ordered_items |-> <<KeyDownSelf, KeyDownCross>>, include_self_attention |-> TRUE,
       include_cross_attention |-> TRUE, layer_patterns |-> <<PatSelf, PatCross>>,
       max_layers |-> 0],
      [ordered_items |-> <<KeyOther, KeyDownCross, KeyMidCross>>, include_self_attention |-> FALSE,
       include_cross_attention |-> TRUE, layer_patterns |-> <<>>, max_layers |-> 0],
      [ordered_items |-> <<KeyDownSelf, KeyMidCross>>, include_self_attention |-> TRUE,
       include_cross_attention |-> TRUE, layer_patterns |-> <<PatCross>>, max_layers |-> 1],
      [ordered_items |-> <<KeyMidSelf>>, include_self_attention |-> TRUE,
       include_cross_attention |-> FALSE, layer_patterns |-> <<>>, max_layers |-> 0] }

\* Query lengths of a layer: 4 = 2 x 2 latent positions, 6 = 2 x 3.
QueryTokens == {4, 6}

ModelHeads == 2

RunningPcs ==
    {"step_begin", "unet", "post_unet", "drain", "save", "write_metadata",
     "write_metrics", "write_latent_pca", "validate_assets", "write_validation", "finish"}

EndedPcs == {"done", "failed_size", "failed_shape", "failed_assets", "failed_record",
             "failed_drain", "crashed"}

WritePcs == {"write_metadata", "write_metrics", "write_latent_pca", "write_validation"}

\* lines 311-375: progress records written before the loop is entered
ProgressBeforeLoop(total) ==
    <<ProgressRecord("initializing", -1, -1), ProgressRecord("loading", -1, -1),
      ProgressRecord("generating", 0, total)>>

Init ==
    /\ sel_args \in RunSelArgs
    /\ sel_out = create_recording_processors(sel_args)
    /\ sel_out.status = "returned"
    /\ recorder \in {NewRecorder(tc, ar, sr, cfg) :
                         tc \in TokenCounts, ar \in Resolutions,
                         sr \in Resolutions, cfg \in BOOLEAN}
    /\ \E n \in 1..MaxSteps, fail \in BOOLEAN :
         \E q \in [1..Len(sel_out.selected_layers) -> QueryTokens] :
            run = [timesteps |-> SchedulerTimesteps(n),
                   selected_layers |-> sel_out.selected_layers,
                   layer_query_tokens |-> q,
                   heads |-> ModelHeads,
                   fail_on_shape_error |-> fail]
    /\ call_log = <<>> /\ drained = <<>>
    /\ attention_files = <<>> /\ image_paths = <<>> /\ bin_files = <<>>
    /\ json_files = NoFiles /\ wj = WjIdle
    /\ pc = "step_begin"
    /\ step_index = 0
    /\ hist = NoHist
    /\ shape_errors = <<>>
    /\ pending = <<>>
    /\ exports = NoExports
    /\ progress = ProgressBeforeLoop(Len(run.timesteps))
    /\ val = NoVal
    /\ AnaIdle /\ SvcIdle

\* lines 401-403: the loop takes the next timestep and resets the recorder
StepBegin ==
    /\ pc = "step_begin"
    /\ step_index < TotalSteps
    /\ recorder' = set_step(recorder, step_index, run.timesteps[step_index + 1])
    /\ call_log' = <<>>
    /\ drained' = <<>>
    /\ pc' = "unet"
    /\ UNCHANGED <<svcVars, anaVars, selVars, serVars, run, step_index, hist, shape_errors, pending,
                   exports, progress, val>>

\* lines 405-414: the UNet forward pass, during which the layers record
UnetForward ==
    /\ pc = "unet"
    /\ LET out == unet_forward(recorder, <<>>, 1)
       IN  /\ recorder' = out.rec
           /\ call_log' = out.log
           /\ pc' = IF out.raised = "" THEN "post_unet" ELSE "failed_record"
    /\ UNCHANGED <<svcVars, anaVars, drained, selVars, serVars, run, step_index, hist, shape_errors,
                   pending, exports, progress, val>>

\* lines 416-441: scheduler step, histories, decoded image saved
StepHistories ==
    /\ pc = "post_unet"
    /\ hist' = step_histories(hist, step_index)
    /\ image_paths' = step_images(image_paths, step_index)
    /\ pc' = "drain"
    /\ UNCHANGED <<svcVars, anaVars, selVars, recVars, attention_files, bin_files, json_files, wj, run,
                   step_index, shape_errors, pending, exports, progress, val>>

\* lines 443-444: drain the recorder, collect the shape errors
DrainStep ==
    /\ pc = "drain"
    /\ LET out == drain_step(recorder)
       IN  /\ recorder' = out.rec
           /\ drained' = out.output
           /\ IF out.raised = ""
              THEN /\ shape_errors' = shape_errors \o out.output[1].shape_errors
                   /\ pending' = attention_saves(out.output[1])
                   /\ pc' = "save"
              ELSE /\ UNCHANGED <<svcVars, anaVars, shape_errors, pending>>
                   /\ pc' = "failed_drain"
    /\ UNCHANGED <<svcVars, anaVars, call_log, selVars, serVars, run, step_index, hist, exports,
                   progress, val>>

\* lines 446-450: one save_attention call of the two loops
SaveAttention ==
    /\ pc = "save"
    /\ pending # <<>>
    /\ LET m == Head(pending)
           out == save_attention(bin_files, attention_files, step_index,
                                 m.layer_id, m.attention_type, m.array)
       IN  /\ out.raised = ""
           /\ bin_files' = out.files
           /\ attention_files' = out.manifest
    /\ pending' = Tail(pending)
    /\ UNCHANGED <<svcVars, anaVars, selVars, recVars, image_paths, json_files, wj, pc, run, step_index,
                   hist, shape_errors, exports, progress, val>>

\* lines 452-485: metric rows of the step, progress record, next iteration
StepEnd ==
    /\ pc = "save"
    /\ pending = <<>>
    /\ hist' = step_metrics(hist, step_index, drained[1], recorder.token_count)
    /\ progress' = Append(progress, ProgressRecord("generating", step_index + 1, TotalSteps))
    /\ step_index' = step_index + 1
    /\ pc' = "step_begin"
    /\ UNCHANGED <<svcVars, anaVars, selVars, recVars, serVars, run, shape_errors, pending, exports, val>>

\* lines 487-584: after the loop, analytics and the documents built in memory
BuildExports ==
    /\ pc = "step_begin"
    /\ step_index = TotalSteps
    /\ \E pca_result \in compute_latent_pca(pca_input) :
         exports' = <<[metadata |-> build_metadata, metrics |-> build_metrics,
                       latent_pca |-> build_latent_pca(pca_result), validation |-> <<>>]>>
    /\ progress' = Append(progress, ProgressRecord("exporting", TotalSteps, TotalSteps))
    /\ pc' = "write_metadata"
    /\ UNCHANGED <<svcVars, anaVars, selVars, recVars, serVars, run, step_index, hist, shape_errors,
                   pending, val>>

ExportTarget(at) ==
    CASE at = "write_metadata" -> JsonPath("metadata")
      [] at = "write_metrics" -> JsonPath("metrics")
      [] at = "write_latent_pca" -> JsonPath("latent_pca")
      [] at = "write_validation" -> JsonPath("validation")

ExportPayload(at) ==
    CASE at = "write_metadata" -> exports[1].metadata
      [] at = "write_metrics" -> exports[1].metrics
      [] at = "write_latent_pca" -> exports[1].latent_pca
      [] at = "write_validation" -> exports[1].validation[1]

\* the export with the write of metrics.json left out
AfterWrite_metrics_skipped(at) ==
    CASE at = "write_metadata" -> "write_latent_pca"
      [] at = "write_metrics" -> "write_latent_pca"
      [] at = "write_latent_pca" -> "validate_assets"
      [] at = "write_validation" -> "finish"

\* lines 586-603: the order of the export
AfterWrite(at) ==
    CASE at = "write_metadata" -> "write_metrics"
      [] at = "write_metrics" -> "write_latent_pca"
      [] at = "write_latent_pca" -> "validate_assets"
      [] at = "write_validation" -> "finish"

\* lines 586-588, 603: serializer.write_json(name, document) is called
ExportCall ==
    /\ pc \in WritePcs
    /\ ~WjActive(wj)
    /\ wj' = WjCall(wj, json_files, ExportTarget(pc), ExportPayload(pc))
    /\ UNCHANGED <<svcVars, anaVars, selVars, recVars, attention_files, image_paths, bin_files, json_files,
                   pc, run, step_index, hist, shape_errors, pending, exports, progress, val>>

\* the write_json call in progress takes its next step; on return the
\* driver moves on
ExportStep ==
    /\ pc \in WritePcs
    /\ WjActive(wj)
    /\ json_files' = write_json_files(json_files, wj)
    /\ wj' = [wj EXCEPT !.at = write_json_at(wj)]
    /\ pc' = IF write_json_at(wj) = "returned" THEN AfterWrite(pc) ELSE pc
    /\ UNCHANGED <<svcVars, anaVars, selVars, recVars, attention_files, image_paths, bin_files, run,
                   step_index, hist, shape_errors, pending, exports, progress, val>>

\* lines 590-602: inline validation of the attention files
ValidateAssets ==
    /\ pc = "validate_assets"
    /\ exports' = <<[exports[1] EXCEPT !.validation =
                        <<build_validation(exports[1].metadata, exports[1].metrics,
                                           exports[1].latent_pca)>>]>>
    /\ pc' = "write_validation"
    /\ UNCHANGED <<svcVars, anaVars, selVars, recVars, serVars, run, step_index, hist, shape_errors,
                   pending, progress, val>>

\* lines 609-615: the dataset exceeds the size budget and the limit is enforced
FinishOverBudget ==
    /\ pc = "finish"
    /\ pc' = "failed_size"
    /\ UNCHANGED <<svcVars, anaVars, selVars, recVars, serVars, run, step_index, hist, shape_errors,
                   pending, exports, progress, val>>

\* lines 618-633: the end of main
Finish ==
    /\ pc = "finish"
    /\ IF run.fail_on_shape_error /\ shape_errors # <<>>
       THEN pc' = "failed_shape" /\ UNCHANGED progress
       ELSE IF run.fail_on_shape_error /\ ~exports[1].validation[1].attention_assets.passed
       THEN pc' = "failed_assets" /\ UNCHANGED progress
       ELSE /\ pc' = "done"
            /\ progress' = Append(progress, ProgressRecord("completed", TotalSteps, TotalSteps))
    /\ UNCHANGED <<svcVars, anaVars, selVars, recVars, serVars, run, step_index, hist, shape_errors,
                   pending, exports, val>>

\* the process is killed; the files stay as they are
Crash ==
    /\ pc \in RunningPcs
    /\ pc' = "crashed"
    /\ UNCHANGED <<svcVars, anaVars, selVars, recVars, serVars, run, step_index, hist, shape_errors,
                   pending, exports, progress, val>>

\* validate_dataset.validate(dataset_dir) on the output directory
Validate ==
    /\ pc \in EndedPcs
    /\ val.status = "none"
    /\ val' = validate(json_files, bin_files)
    /\ UNCHANGED <<svcVars, anaVars, selVars, recVars, serVars, pc, run, step_index, hist, shape_errors,
                   pending, exports, progress>>

Next ==
    \/ StepBegin \/ UnetForward \/ StepHistories \/ DrainStep \/ SaveAttention
    \/ StepEnd \/ BuildExports \/ ExportCall \/ ExportStep \/ ValidateAssets
    \/ FinishOverBudget \/ Finish \/ Crash \/ Validate

Spec == Init /\ [][Next]_vars

(***************************************************************************)
(* Claims about write_json (SpecJson).                                     *)
(***************************************************************************)
\* C2: whatever point a write_json call has reached, also when the process
\* died inside it, a reader of a JSON target path finds no file or a whole
\* document, never a partly written one; the target of the call holds the
\* file it held before the call or the whole new document, and the whole new
\* document once the call has returned.
C2_AtomicJson ==
    /\ \A t \in JsonTargets : json_files[t] = Absent \/ json_files[t].complete
    /\ wj.at # "idle" =>
         /\ json_files[wj.target] \in {wj.prev, Complete(wj.payload[1])}
         /\ wj.prev = Absent \/ wj.prev.complete
    /\ wj.at = "returned" => json_files[wj.target] = Complete(wj.payload[1])

\* the process died after the temporary file was opened, over an earlier
\* document: the temporary file is partial, the target still the earlier one
C2_Witness ==
    /\ wj.at = "crashed"
    /\ wj.prev.complete
    /\ wj.prev.doc # wj.payload
    /\ json_files[temp_target(wj.target)] = Partial(wj.payload[1])
    /\ json_files[wj.target] = wj.prev

(***************************************************************************)
(* Claims about layer selection (SpecSel).                                 *)
(***************************************************************************)
ItemCount == Len(sel_args.ordered_items)

\* the layer's kind is enabled by the include flags
KindEnabled(key) ==
    LET kind == IF Contains(key, NeedleCross) THEN "cross"
                ELSE IF Contains(key, NeedleSelf) THEN "self" ELSE "neither"
    IN  \/ kind = "cross" /\ sel_args.include_cross_attention
        \/ kind = "self" /\ sel_args.include_self_attention

\* the key matches at least one pattern; no pattern at all matches every key
GlobMatches(key) ==
    \/ sel_args.layer_patterns = <<>>
    \/ \E pat \in Range(sel_args.layer_patterns) : fnmatch(key, pat)

Eligible(key) == KindEnabled(key) /\ GlobMatches(key)

EligibleKeys == SelectSeq(sel_args.ordered_items, Eligible)

SelectedKeys ==
    [j \in 1..Len(sel_out.selected_layers) |-> sel_out.selected_layers[j].processor_key]

IsSelected(i) == sel_args.ordered_items[i] \in Range(SelectedKeys)

\* what the loop selected, also when the call then raised: it raises only on
\* an empty selection, so the selection is sel_out.selected_layers either way

\* C5: a layer is selected iff its kind is enabled, its key matches a pattern
\* and fewer than max_layers layers were selected before it; with
\* max_layers <= 0 all eligible layers are selected, with max_layers = N > 0
\* the first min(N, number of eligible layers) ones, in traversal order.
C5_Selection ==
    pc = "selected" =>
      /\ \A i \in 1..ItemCount :
           IsSelected(i) <=>
             /\ Eligible(sel_args.ordered_items[i])
             /\ \/ sel_args.max_layers <= 0
                \/ Cardinality({j \in 1..(i - 1) : IsSelected(j)}) < sel_args.max_layers
      /\ sel_args.max_layers <= 0 => SelectedKeys = EligibleKeys
      /\ sel_args.max_layers > 0 =>
           SelectedKeys = SubSeq(EligibleKeys, 1, Min(sel_args.max_layers, Len(EligibleKeys)))

\* the limit cuts the selection short, and a pattern list rejects a key
C5_Witness ==
    /\ pc = "selected"
    /\ sel_args.max_layers > 0
    /\ Len(EligibleKeys) > sel_args.max_layers
    /\ Len(SelectedKeys) = sel_args.max_layers
    /\ \E i \in 1..ItemCount :
         KindEnabled(sel_args.ordered_items[i]) /\ ~GlobMatches(sel_args.ordered_items[i])

PositionOf(key) == CHOOSE i \in 1..ItemCount : sel_args.ordered_items[i] = key

\* C6: the j-th selected layer (in traversal order) has id layer_{j-1}
\* whatever its type, no id is used twice, and the recording processor
\* installed for its key carries the id and type of its LayerInfo.
C6_SequentialIds ==
    (pc = "selected" /\ sel_out.status = "returned") =>
      LET sel == sel_out.selected_layers
      IN  /\ \A j \in 1..Len(sel) : sel[j].layer_id = LayerId(j - 1)
          /\ \A j, k \in 1..Len(sel) : j # k => sel[j].layer_id # sel[k].layer_id
          /\ \A j, k \in 1..Len(sel) :
               j < k => PositionOf(sel[j].processor_key) < PositionOf(sel[k].processor_key)
          /\ \A j \in 1..Len(sel) :
               LET proc == sel_out.processor_map[sel[j].processor_key]
               IN  /\ proc.kind = "recording"
                   /\ proc.layer_id = sel[j].layer_id
                   /\ proc.attention_type = sel[j].attention_type
          /\ \A key \in DOMAIN sel_out.processor_map :
               sel_out.processor_map[key].kind = "recording" => key \in Range(SelectedKeys)

\* a self layer and a cross layer are selected after a layer that is not
C6_Witness ==
    /\ pc = "selected"
    /\ sel_out.status = "returned"
    /\ Len(sel_out.selected_layers) >= 2
    /\ sel_out.selected_layers[1].attention_type # sel_out.selected_layers[2].attention_type
    /\ ~IsSelected(1)

\* C7: the call raises exactly when no layer is selected, and then returns
\* nothing; otherwise the returned map has every input key, each
\* non-selected key mapped to the processor it had.
C7_EmptySelectionFails ==
    pc = "selected" =>
      /\ sel_out.status \in {"raised", "returned"}
      /\ sel_out.status = "raised" <=> EligibleKeys = <<>>
      /\ sel_out.status = "raised" =>
           /\ sel_out.error = "RuntimeError"
           /\ sel_out.processor_map = <<>>
           /\ sel_out.selected_layers = <<>>
      /\ sel_out.status = "returned" =>
           /\ sel_out.selected_layers # <<>>
           /\ DOMAIN sel_out.processor_map = Range(sel_args.ordered_items)
           /\ \A i \in 1..ItemCount :
                ~IsSelected(i) =>
                  sel_out.processor_map[sel_args.ordered_items[i]]
                    = OriginalProcessor(sel_args.ordered_items[i])

\* layers were offered and none was selected: the call raised
C7_Witness ==
    /\ pc = "selected"
    /\ sel_out.status = "raised"
    /\ ItemCount >= 2
    /\ \E i \in 1..ItemCount : KindEnabled(sel_args.ordered_items[i])

(***************************************************************************)
(* Claims about record and drain_step (SpecRec).                           *)
(***************************************************************************)
LastCall == call_log[Len(call_log)]

\* rank other than 3, heads <= 0, BH not divisible by heads, or unknown type
Malformed(c) ==
    \/ c.attention_type \notin {"cross", "self"}
    \/ Len(c.shape) # 3
    \/ c.heads <= 0
    \/ c.shape[1] % c.heads # 0

WellFormed(c) == ~Malformed(c)

IsSquare(n) == \E side \in 0..n : side * side = n

Tables(r) ==
    <<r.cross_maps, r.self_maps, r.cross_entropy, r.self_entropy,
      r.token_activation_by_layer>>

\* C8: a record call with a malformed tensor or an unknown type raises
\* nothing, appends exactly one shape error and leaves the cross maps, self
\* maps, entropy tables and token-activation table as they were.
C8_MalformedRecord ==
    [][ (pc = "in_step" /\ Len(call_log') = Len(call_log) + 1 /\ Malformed(LastCall'))
        => /\ LastCall'.raised = ""
           /\ pc' = "in_step"
           /\ Len(recorder'.shape_errors) = Len(recorder.shape_errors) + 1
           /\ SubSeq(recorder'.shape_errors, 1, Len(recorder.shape_errors))
                = recorder.shape_errors
           /\ Tables(recorder') = Tables(recorder) ]_vars

\* a malformed call was made after a well-formed cross call had filled the
\* tables: the tables are still filled and one error was appended
C8_Witness ==
    /\ pc = "in_step"
    /\ Len(call_log) = 2
    /\ WellFormed(call_log[1]) /\ call_log[1].attention_type = "cross"
    /\ Malformed(call_log[2]) /\ call_log[2].attention_type = "cross"
    /\ call_log[2].heads = 3
    /\ Len(call_log[2].appended) = 1
    /\ recorder.cross_maps # <<>>

\* C9 as claimed: recording a rank-2 tensor for a layer appends exactly one
\* shape error that names both the layer id given to record and the rank 2,
\* raises nothing, and the next drain_step has no map for that layer.
C9_RankErrorNamesLayer ==
    \A i \in 1..Len(call_log) :
      LET c == call_log[i]
      IN  (c.attention_type \in {"cross", "self"} /\ Len(c.shape) = 2) =>
            /\ c.raised = ""
            /\ Len(c.appended) = 1
            /\ c.appended[1].layer = c.layer_id
            /\ c.appended[1].nums = <<2>>
            /\ drained # <<>> =>
                 /\ ~DictHas(drained[1].cross_maps, c.layer_id)
                 /\ ~DictHas(drained[1].self_maps, c.layer_id)

\* C10 as claimed: a cross record call whose query length is not a perfect
\* square appends exactly one shape error, and the drain_step that follows
\* has no cross map, no cross-entropy entry and no token-activation
\* contribution of that layer.
C10_NonSquareSkipped ==
    \A i \in 1..Len(call_log) :
      LET c == call_log[i]
      IN  (c.attention_type = "cross" /\ WellFormed(c) /\ ~IsSquare(c.shape[2])) =>
            /\ c.raised = ""
            /\ Len(c.appended) = 1
            /\ drained # <<>> =>
                 /\ ~DictHas(drained[1].cross_maps, c.layer_id)
                 /\ ~DictHas(drained[1].cross_entropy, c.layer_id)
                 /\ \/ drained[1].mean_token_activation.none
                    \/ \A j \in 1..Len(drained[1].mean_token_activation.vec) :
                         <<c.layer_id, drained[1].step>>
                           \notin drained[1].mean_token_activation.vec[j].sum_of

\* the calls of the current step that store a cross map
StoresCrossMap(c) ==
    c.attention_type = "cross" /\ WellFormed(c) /\ IsSquare(c.shape[2])

\* C11: every cross map stored by record has leading dimension token_count,
\* whatever the key length K: row i < min(K, token_count) is row i of the
\* resampled map, rows from K on are zero, and the rows of the resampled map
\* from token_count on are not stored.
C11_CrossMapLeadingDim ==
    \A n \in 1..Len(call_log) :
      LET c == call_log[n]
          K == c.shape[3]
          tc == recorder.token_count
      IN  StoresCrossMap(c) =>
            /\ DictHas(recorder.cross_maps, c.layer_id)
            /\ LET map == DictGet(recorder.cross_maps, c.layer_id)
               IN  /\ map.shape = <<tc, recorder.attention_resolution,
                                    recorder.attention_resolution>>
                   /\ Len(map.rows) = tc
                   /\ \A i \in 1..tc :
                        map.rows[i] = IF i <= Min(K, tc) THEN i ELSE 0

\* with token_count = 2, one stored map was padded (K = 1) and another
\* truncated (K = 3)
C11_Witness ==
    /\ recorder.token_count = 2
    /\ Len(call_log) = 2
    /\ StoresCrossMap(call_log[1]) /\ call_log[1].shape[3] = 1
    /\ StoresCrossMap(call_log[2]) /\ call_log[2].shape[3] = 3
    /\ DictGet(recorder.cross_maps, call_log[1].layer_id).rows = <<1, 0>>
    /\ DictGet(recorder.cross_maps, call_log[2].layer_id).rows = <<1, 2>>

\* the layers for which record was called since the last set_step
LayersCalled == {call_log[i].layer_id : i \in 1..Len(call_log)}

\* every map, entropy and token-activation entry of a drained output was
\* computed in the step of that output, by a record call made in that step
OnlyOfStep(out) ==
    /\ \A i \in 1..Len(out.cross_maps) :
          /\ out.cross_maps[i][2].of_step = out.step
          /\ out.cross_maps[i][1] \in LayersCalled
    /\ \A i \in 1..Len(out.self_maps) :
          /\ out.self_maps[i][2].of_step = out.step
          /\ out.self_maps[i][1] \in LayersCalled
    /\ \A i \in 1..Len(out.cross_entropy) :
          /\ out.cross_entropy[i][2][2] = out.step
          /\ out.cross_entropy[i][1] \in LayersCalled
    /\ \A i \in 1..Len(out.self_entropy) :
          /\ out.self_entropy[i][2][2] = out.step
          /\ out.self_entropy[i][1] \in LayersCalled
    /\ \/ out.mean_token_activation.none
       \/ \A j \in 1..Len(out.mean_token_activation.vec) :
            \A tag \in out.mean_token_activation.vec[j].sum_of :
               tag[2] = out.step /\ tag[1] \in LayersCalled

\* C15: set_step leaves the cross maps, self maps, entropy tables and the
\* token-activation table empty, and the output of a drain_step holds only
\* data of record calls made since the last set_step: nothing recorded in
\* an earlier step appears in a later step's output.
C15_SetStepResets ==
    /\ [](drained # <<>> => drained[1].step = recorder.current_step /\ OnlyOfStep(drained[1]))
    /\ [][ (pc = "await_set_step" /\ pc' = "in_step") =>
             Tables(recorder') = <<(<<>>), (<<>>), (<<>>), (<<>>), (<<>>)>> ]_vars

\* the second step was drained after one cross record call in it, and its
\* output has the map, entropy and activation of that call alone
C15_Witness ==
    /\ recorder.current_step = 1
    /\ drained # <<>>
    /\ Len(call_log) = 1
    /\ Len(drained[1].cross_maps) = 1
    /\ Len(drained[1].cross_entropy) = 1
    /\ ~drained[1].mean_token_activation.none
    /\ drained[1].mean_token_activation.vec[1]
          = [sum_of |-> {<<call_log[1].layer_id, 1>>}, divided_by |-> 1]

(***************************************************************************)
(* Claims about save_attention (SpecSer).                                  *)
(***************************************************************************)
\* the manifest record of a save_attention call
RecordOfCall(c) ==
    [step |-> c.step, layer_id |-> c.layer_id, attention_type |-> c.attention_type,
     path |-> attention_path(c.step, c.layer_id, c.attention_type),
     shape |-> c.shape, dtype |-> "float16"]

SuccessfulCalls == SelectSeq(call_log, LAMBDA c : c.raised = "")

\* C12: a save_attention call with a type other than cross or self raises
\* the configuration error (ValueError) and leaves the files and the manifest
\* as they were; a call with a known type raises nothing and appends one
\* record at the end; the manifest is the sequence of the successful calls
\* in call order.
C12_SaveAttentionUnknownType ==
    /\ [](attention_files = [i \in 1..Len(SuccessfulCalls) |-> RecordOfCall(SuccessfulCalls[i])])
    /\ [][ Len(call_log') = Len(call_log) + 1 =>
             LET c == call_log'[Len(call_log')]
             IN  IF c.attention_type \notin {"cross", "self"}
                 THEN /\ c.raised = "ValueError"
                      /\ bin_files' = bin_files
                      /\ attention_files' = attention_files
                 ELSE /\ c.raised = ""
                      /\ attention_files' = Append(attention_files, RecordOfCall(c)) ]_vars

\* a call with an unknown type was made after a successful call: it raised
\* and the manifest still holds the one record
C12_Witness ==
    /\ pc = "serializer"
    /\ Len(call_log) = 2
    /\ call_log[1].raised = ""
    /\ call_log[2].attention_type = "other" /\ call_log[2].raised = "ValueError"
    /\ attention_files = <<RecordOfCall(call_log[1])>>
    /\ DOMAIN bin_files = {attention_files[1].path}

(***************************************************************************)
(* Claims about the run of the driver (Spec).                              *)
(***************************************************************************)
\* the bytes on disk of a manifest record's file, -1 when there is no file
SizeOnDisk(path) == IF path \in DOMAIN bin_files THEN bin_files[path] ELSE -1

\* C1: at every moment of a run, every attention file record of the
\* manifest names a file whose size on disk is product(shape) * 2, and no
\* two records name the same path (each path has one writer).
C1_AttentionFileSize ==
    /\ \A i \in 1..Len(attention_files) :
          SizeOnDisk(attention_files[i].path) = Product(attention_files[i].shape) * 2
    /\ \A i, j \in 1..Len(attention_files) :
          i # j => attention_files[i].path # attention_files[j].path

\* a finished run whose manifest holds records of two different steps
C1_Witness ==
    /\ pc = "done"
    /\ \E i, j \in 1..Len(attention_files) :
          attention_files[i].step # attention_files[j].step

\* C3: at the head of the sampling loop after k iterations the images, the
\* latent norms and the latent history have length k; and the exported
\* documents have len(timesteps) = len(images) = steps = len(latent_l2_norm)
\* = len(latent_pca.points).
C3_LengthAlignment ==
    /\ pc = "step_begin" =>
          /\ Len(image_paths) = step_index
          /\ Len(hist.latent_norms) = step_index
          /\ Len(hist.latent_history) = step_index
    /\ exports # NoExports =>
          /\ Len(exports[1].metadata.timesteps) = exports[1].metadata.steps
          /\ Len(exports[1].metadata.images) = exports[1].metadata.steps
          /\ Len(exports[1].metrics.latent_l2_norm) = exports[1].metadata.steps
          /\ Len(exports[1].latent_pca.points) = exports[1].metadata.steps

\* a run of a single step has exported its documents and ended
C3_Witness ==
    /\ pc = "done"
    /\ exports # NoExports
    /\ exports[1].metadata.steps = 1
    /\ json_files[JsonPath("latent_pca")].complete

\* C4: when the validator has run on a directory that holds metadata.json
\* and no metrics.json, it has returned a result with passed = false and a
\* "missing file" error; it has not raised.
C4_MissingMetricsReported ==
    (/\ val.status # "none"
     /\ json_files[JsonPath("metadata")].exists
     /\ ~json_files[JsonPath("metrics")].exists)
    => /\ val.status = "returned"
       /\ ~val.passed
       /\ \E i \in 1..Len(val.errors) : val.errors[i].kind = "missing file"


(***************************************************************************)
(* Claims about the standalone validator (SpecVal).                        *)
(***************************************************************************)
\* the length of a step-indexed array of the documents in the directory
StepArrayLen(name) ==
    LET metadata == json_files[JsonPath("metadata")].doc[1]
        metrics == json_files[JsonPath("metrics")].doc[1]
        latent_pca == json_files[JsonPath("latent_pca")].doc[1]
    IN  CASE name = "timesteps" -> Len(get(metadata, "timesteps", <<>>))
          [] name = "images" -> Len(get(metadata, "images", <<>>))
          [] name = "points" -> Len(get(latent_pca, "points", <<>>))
          [] OTHER -> Len(get(metrics, name, <<>>))

\* metadata.steps, 0 when the document has none
DocumentSteps == get(json_files[JsonPath("metadata")].doc[1], "steps", 0)

\* C13 as claimed: when a step-indexed array of the documents (timesteps,
\* images, latent_l2_norm, predicted_noise_l2_norm,
\* cosine_similarity_to_previous, cross_attention_entropy,
\* self_attention_entropy, mean_token_activation, attention_kl_divergence,
\* pca points) has a length other than metadata.steps, validate reports an
\* error.
C13_StepArraysChecked ==
    (/\ pc = "validated"
     /\ \E name \in StepArrays : StepArrayLen(name) # DocumentSteps)
    => /\ val.status = "returned"
       /\ ~val.passed
       /\ val.errors # <<>>

(***************************************************************************)
(* Claims about token_importance_ranking (SpecRank).                       *)
(***************************************************************************)
\* index a comes before index b: higher score first, equal scores by
\* ascending index
RanksBefore(scores, a, b) ==
    \/ scores[a + 1] > scores[b + 1]
    \/ scores[a + 1] = scores[b + 1] /\ a < b

\* the indices by descending score, ties by ascending index
DescendingTiesAscending(scores) ==
    CHOOSE p \in IndexPermutations(Len(scores)) :
        \A i \in 1..(Len(scores) - 1) : RanksBefore(scores, p[i], p[i + 1])

\* C14 as claimed: token_importance_ranking(scores, top_k), top_k >= 0,
\* returns the indices by descending score, equal scores by ascending
\* original index, truncated to the first top_k entries.
C14_RankingTieOrder ==
    (pc = "ranked" /\ rank_args.top_k >= 0) =>
        [i \in 1..Len(rank_out[1]) |-> rank_out[1][i].token_index]
          = SubSeq(DescendingTiesAscending(rank_args.token_scores), 1,
                   Min(rank_args.top_k, Len(rank_args.token_scores)))

(***************************************************************************)
(* Claims about shape errors over a run (Spec).                            *)
(***************************************************************************)
RECURSIVE Concat(_)
\* the concatenation of a sequence of sequences
Concat(seqs) == IF seqs = <<>> THEN <<>> ELSE Head(seqs) \o Concat(Tail(seqs))

\* the shape errors appended by the record calls of the current step
AppendedInStep == Concat([i \in 1..Len(call_log) |-> call_log[i].appended])

\* the shape errors that occur in one step of the run: one for every
\* selected cross layer whose query length is not a perfect square
ShapeErrorsOfStep(step) ==
    Concat([i \in 1..Len(run.selected_layers) |->
        IF run.selected_layers[i].attention_type = "cross"
           /\ ~IsSquare(run.layer_query_tokens[i])
        THEN <<ShapeError("is not square", step, run.selected_layers[i].layer_id, "",
                          <<run.layer_query_tokens[i]>>)>>
        ELSE <<>>])

\* the shape errors that occur in the first k steps of the run
ShapeErrorsOfSteps(k) == Concat([n \in 1..k |-> ShapeErrorsOfStep(n - 1)])

\* C16: a drain_step returns the shape errors appended since the previous
\* drain_step and clears the recorder's list, so each error is returned by
\* one drain_step only; the driver's list after k steps holds every shape
\* error of those steps once, metrics.shape_validation.errors holds every
\* shape error of the run once, and shape_validation.passed is true iff
\* there was none.
C16_ShapeErrorsOnce ==
    /\ [](pc = "step_begin" =>
            /\ recorder.shape_errors = <<>>
            /\ shape_errors = ShapeErrorsOfSteps(step_index))
    /\ [](exports # NoExports =>
            /\ exports[1].metrics.shape_validation.errors = ShapeErrorsOfSteps(TotalSteps)
            /\ exports[1].metrics.shape_validation.passed
                 <=> (ShapeErrorsOfSteps(TotalSteps) = <<>>))
    /\ [][ (pc = "drain" /\ pc' = "save") =>
             /\ drained'[1].shape_errors = AppendedInStep
             /\ recorder'.shape_errors = <<>>
             /\ shape_errors' = shape_errors \o AppendedInStep ]_vars

\* a run of two steps with a shape error in each has ended, and metrics.json
\* on disk lists the two errors
C16_Witness ==
    /\ pc = "done"
    /\ Len(shape_errors) = 2
    /\ shape_errors[1].step = 0 /\ shape_errors[2].step = 1
    /\ json_files[JsonPath("metrics")].complete
    /\ json_files[JsonPath("metrics")].doc[1].shape_validation.errors = shape_errors
    /\ ~json_files[JsonPath("metrics")].doc[1].shape_validation.passed

(***************************************************************************)
(* Claims about the mean token activation (Spec).                          *)
(***************************************************************************)
\* the selected cross layers: each produces a token-activation vector in
\* every step
CrossLayerIds ==
    {run.selected_layers[i].layer_id :
        i \in {n \in 1..Len(run.selected_layers) :
                  run.selected_layers[n].attention_type = "cross"}}

\* the arithmetic mean of the vectors that the cross layers produced in a
\* step: every entry is the sum over those layers divided by their number
MeanOverCrossLayers(step) ==
    [j \in 1..recorder.token_count |->
        [sum_of |-> {<<id, step>> : id \in CrossLayerIds},
         divided_by |-> Cardinality(CrossLayerIds)]]

\* the all-zero vector of length token_count
ZeroVector == [j \in 1..recorder.token_count |-> ZeroEntry]

\* C17 as claimed: drain_step returns as mean token-activation vector the
\* arithmetic mean of the token-activation vectors of the layers that
\* produced one in the step, and when no layer produced one it returns an
\* all-zero vector of length token_count.
C17_MeanTokenActivation ==
    pc = "save" =>
        drained[1].mean_token_activation
          = IF CrossLayerIds = {} THEN Some(ZeroVector)
            ELSE Some(MeanOverCrossLayers(step_index))

(***************************************************************************)
(* Claims about validate_attention_assets (SpecAssets).                    *)
(***************************************************************************)
\* a record with an empty path, a missing file, a shape that is not a
\* non-empty list of positive integers, or a file of another size than
\* product(shape) * 2
FaultyRecord(entry) ==
    \/ entry.path = <<>>
    \/ entry.path \notin DOMAIN bin_files
    \/ entry.shape = <<>>
    \/ \E i \in 1..Len(entry.shape) : entry.shape[i] <= 0
    \/ bin_files[entry.path] # Product(entry.shape) * 2

FaultyRecords == SelectSeq(attention_files, FaultyRecord)

\* C18: validate_attention_assets examines every record: checked_files is
\* the number of records, the error list has one error for each faulty
\* record, in the order of the records, and none for any other record, and
\* passed is true iff the error list is empty.
C18_AllAssetsExamined ==
    pc = "assets_validated" =>
        /\ val.checked_files = Len(attention_files)
        /\ Len(val.errors) = Len(FaultyRecords)
        /\ \A i \in 1..Len(val.errors) : val.errors[i].path = FaultyRecords[i].path
        /\ val.passed <=> (val.errors = <<>>)

\* three records were examined, the first and the last faulty and the
\* second sound: two errors
C18_Witness ==
    /\ pc = "assets_validated"
    /\ Len(attention_files) = 3
    /\ FaultyRecord(attention_files[1])
    /\ ~FaultyRecord(attention_files[2])
    /\ FaultyRecord(attention_files[3])
    /\ Len(val.errors) = 2
    /\ ~val.passed

(***************************************************************************)
(* Claims about the progress records of a run (Spec).                      *)
(***************************************************************************)
ProgressStages == [i \in 1..Len(progress) |-> progress[i].stage]

\* initializing, loading, n times generating, exporting, completed
StagesOfRun(n) ==
    <<"initializing", "loading">> \o [i \in 1..n |-> "generating"]
        \o <<"exporting", "completed">>

DocumentsWritten ==
    \A stem \in {"metadata", "metrics", "latent_pca", "validation"} :
        json_files[JsonPath(stem)].complete

\* C19 as claimed: a successful run of N steps has written, in this order,
\* one initializing record, one loading record, exactly N generating
\* records, one exporting record and one completed record; current_step
\* never decreases; and the completed record is written only after
\* metadata.json, metrics.json, latent_pca.json and validation.json.
C19_ProgressOrder ==
    /\ pc = "done" => ProgressStages = StagesOfRun(TotalSteps)
    /\ \A i \in 1..(Len(progress) - 1) :
          progress[i].current_step <= progress[i + 1].current_step
    /\ (progress # <<>> /\ progress[Len(progress)].stage = "completed")
          => DocumentsWritten

(***************************************************************************)
(* Claims about the end of a run (Spec).                                   *)
(***************************************************************************)
\* the run has ended by returning or by an exception raised after the export
EndedAfterExport == pc \in {"done", "failed_size", "failed_shape", "failed_assets"}

\* C20: when a run whose sampling loop finished ends, by success or by the
\* fatal treatment of shape errors or of integrity errors, metrics.json is
\* completely written and its shape_validation.errors are the shape errors
\* of the run, and validation.json is completely written and holds the
\* report of the attention asset validation.
C20_DocumentsBeforeFailure ==
    EndedAfterExport =>
        /\ json_files[JsonPath("metrics")].complete
        /\ json_files[JsonPath("metrics")].doc[1].shape_validation.errors = shape_errors
        /\ json_files[JsonPath("metrics")].doc[1].shape_validation.passed
             <=> (shape_errors = <<>>)
        /\ json_files[JsonPath("validation")].complete
        /\ json_files[JsonPath("validation")].doc[1].attention_assets
             = validate_attention_assets(bin_files, attention_files)

\* a run with fatal treatment of shape errors has failed on two shape
\* errors, both of them listed in metrics.json on disk
C20_Witness ==
    /\ pc = "failed_shape"
    /\ run.fail_on_shape_error
    /\ Len(shape_errors) = 2
    /\ json_files[JsonPath("metrics")].complete
    /\ json_files[JsonPath("metrics")].doc[1].shape_validation.errors = shape_errors
    /\ json_files[JsonPath("validation")].complete

(***************************************************************************)
(* Claims about compute_latent_pca (SpecPca).                              *)
(***************************************************************************)
\* C21 as claimed: compute_latent_pca returns one point per input vector: no
\* point and variance [0, 0] for no vector, the point [0, 0] and variance
\* [1, 0] for one vector, whichever it is, and n points of two coordinates
\* with a variance ratio of two values for n >= 2 vectors; calls on the
\* same input return the same result.
C21_PcaPoints ==
    \A c \in 1..Len(pca_out) :
        /\ Len(pca_out[c].points) = Len(pca_args)
        /\ Len(pca_args) = 0 =>
              pca_out[c] = [points |-> <<>>, explained_variance_ratio |-> <<0, 0>>]
        /\ Len(pca_args) = 1 =>
              pca_out[c] = [points |-> << <<0, 0>> >>, explained_variance_ratio |-> <<1, 0>>]
        /\ \A i \in 1..Len(pca_out[c].points) : Len(pca_out[c].points[i]) = 2
        /\ Len(pca_out[c].explained_variance_ratio) = 2
        /\ pca_out[c] = pca_out[1]

(***************************************************************************)
(* Claims about the job registry (SpecSvc, SpecSvcLive).                   *)
(***************************************************************************)
RunningJobs == {i \in 1..Len(jobs) : jobs[i][2].status = "running"}

\* C22 as claimed: at most one job of the registry has the status running,
\* in every interleaving of create_job requests and monitor threads.
C22_SingleRunningJob == Cardinality(RunningJobs) <= 1

TerminalStatuses == {"completed", "failed"}

\* the request (and process) that a job of the registry belongs to
RequestOf(job) == job.id[2]

\* status, dataset_url and error of a job agree with its process
JobConsistent(job) ==
    /\ job.status \in {"running"} \cup TerminalStatuses
    /\ job.status = "running" => job.dataset_url = None /\ job.error = None
    /\ job.status = "completed" =>
          /\ processes[RequestOf(job)].state = "exited"
          /\ processes[RequestOf(job)].returncode = 0
          /\ ~job.dataset_url.none
          /\ job.error = None
    /\ job.status = "failed" =>
          /\ processes[RequestOf(job)].state = "exited"
          /\ processes[RequestOf(job)].returncode # 0
          /\ ~job.error.none
          /\ job.dataset_url = None

\* C23: a job enters the registry with the status running; once its
\* generator process has exited it eventually has a terminal status,
\* completed with dataset_url set and error unset when the exit code is 0,
\* failed with error set and dataset_url unset otherwise; and after a
\* terminal status is set, its status, dataset_url and error do not change.
C23_JobLifecycle ==
    /\ [](\A i \in 1..Len(jobs) : JobConsistent(jobs[i][2]))
    /\ [][ /\ Len(jobs') > Len(jobs) =>
                /\ Len(jobs') = Len(jobs) + 1
                /\ jobs'[Len(jobs')][2].status = "running"
           /\ \A i \in 1..Len(jobs) :
                jobs[i][2].status \in TerminalStatuses =>
                   /\ jobs'[i][1] = jobs[i][1]
                   /\ jobs'[i][2].status = jobs[i][2].status
                   /\ jobs'[i][2].dataset_url = jobs[i][2].dataset_url
                   /\ jobs'[i][2].error = jobs[i][2].error ]_vars
    /\ \A r \in Requests :
          (processes[r].state = "exited")
             ~> (/\ DictHas(jobs, JobId(r))
                 /\ DictGet(jobs, JobId(r)).status \in TerminalStatuses)

\* one job has completed and another has failed, each with its monitor
\* thread ended
C23_Witness ==
    /\ Len(jobs) = 2
    /\ jobs[1][2].status = "completed" /\ ~jobs[1][2].dataset_url.none
    /\ jobs[2][2].status = "failed" /\ jobs[2][2].error = Some("Generation failed")
    /\ \A i \in 1..2 : processes[RequestOf(jobs[i][2])].monitor = "returned"

\* C24: on the same attention records and the same files, the inline check
\* validate_attention_assets and the attention-file loop of the standalone
\* validate agree: passed is true exactly when the standalone loop reports
\* no error, every record adds one error to both or to neither, and so both
\* report as many errors as there are failing records, although the one
\* looks for the file before the shape and the other after it.
StandaloneErrors == validate_entries(bin_files, attention_files, 0)

FailsInline(i) == asset_entry_errors(bin_files, attention_files[i]) # <<>>

FailsStandalone(i) == validate_entry_errors(bin_files, attention_files[i], i - 1) # <<>>

FailingRecords == {i \in 1..Len(attention_files) : FailsInline(i)}

C24_ValidatorsAgree ==
    pc = "assets_validated" =>
        /\ val.passed = (Len(StandaloneErrors) = 0)
        /\ \A i \in 1..Len(attention_files) :
              /\ FailsInline(i) = FailsStandalone(i)
              /\ Len(asset_entry_errors(bin_files, attention_files[i])) <= 1
              /\ Len(validate_entry_errors(bin_files, attention_files[i], i - 1)) <= 1
        /\ Len(val.errors) = Cardinality(FailingRecords)
        /\ Len(StandaloneErrors) = Cardinality(FailingRecords)

\* the validated list has a record whose file is absent and whose shape is
\* empty, one whose file is absent and whose shape has a zero, and a sound
\* one: the two checks name different faults for the first two
C24_Witness ==
    /\ pc = "assets_validated"
    /\ Len(attention_files) = 3
    /\ attention_files[1] = AssetEntry(AssetPathMissing, <<>>)
    /\ attention_files[2] = AssetEntry(AssetPathA, <<2, 1, 1>>)
    /\ attention_files[3] = AssetEntry(AssetPathMissing, <<2, 0>>)
    /\ val.passed = FALSE
    /\ Len(val.errors) = 2
    /\ val.errors[1].kind = "missing_file"
    /\ val.errors[2].kind = "missing_file"
    /\ Len(StandaloneErrors) = 2
    /\ StandaloneErrors[1].kind = "has invalid shape"
    /\ StandaloneErrors[2].kind = "has non-positive shape dimensions"

(***************************************************************************)
(* Claims about the rows of metrics.mean_token_activation (Spec).          *)
(***************************************************************************)
\* C25: every row kept for a step, and every row of
\* metrics.mean_token_activation in the exported document, has exactly
\* token_count entries, whether the step had cross layers or none, and
\* token_dominance.scores has one score per prompt token.
C25_RowLength ==
    /\ \A k \in 1..Len(hist.mean_token_activation_steps) :
          Len(hist.mean_token_activation_steps[k]) = recorder.token_count
    /\ exports # NoExports =>
          /\ \A k \in 1..Len(exports[1].metrics.mean_token_activation) :
                Len(exports[1].metrics.mean_token_activation[k]) = recorder.token_count
          /\ Len(exports[1].metrics.token_dominance.scores) = recorder.token_count

\* a run of two steps with two prompt tokens and a cross layer has built its
\* metrics document: two rows that are means over the cross layers
C25_Witness ==
    /\ exports # NoExports
    /\ recorder.token_count = 2
    /\ CrossLayerIds # {}
    /\ Len(exports[1].metrics.mean_token_activation) = 2
    /\ exports[1].metrics.mean_token_activation[2] = MeanOverCrossLayers(1)
    /\ Len(exports[1].metrics.token_dominance.scores) = 2

====
